---- MODULE Spec2Model ----
(***************************************************************************)
(* ForkFight: pairwise restaurant votes that move a global and a category  *)
(* ELO rating, stateless undo through stored deltas.                       *)
(*                                                                         *)
(* Numbers.  The program computes on JavaScript numbers (binary floating   *)
(* point, round to nearest, ties to even).  A number is modelled by the    *)
(* integer n that stands for n / Unit, and every arithmetic result is      *)
(* rounded to Precision significant bits the way the hardware rounds to    *)
(* 53.  Sums and differences that are exact in the program are exact here; *)
(* sums that the program rounds are rounded here.                          *)
(***************************************************************************)
EXTENDS Integers, Sequences, FiniteSets, TLC

\* significant bits kept by every arithmetic result
Precision == 12

\* binary digits after the point in the representation of a number
FracBits == 16

Unit == 2 ^ FracBits

Abs(n) == IF n < 0 THEN -n ELSE n

Sign(n) == IF n < 0 THEN -1 ELSE 1

\* the power of two by which a magnitude m exceeds Precision bits
Shift[m \in Nat] ==
    IF m < 2 ^ Precision THEN 0
    ELSE CHOOSE s \in 1..(31 - Precision) :
            /\ m \div (2 ^ s) < 2 ^ Precision
            /\ m \div (2 ^ (s - 1)) >= 2 ^ Precision

\* the exact value n (with `sticky` set when digits below n's last one were
\* already dropped) rounded to Precision bits, nearest, ties to even
Rounded[n \in Int, sticky \in BOOLEAN] ==
    LET m    == Abs(n)
        s    == Shift[m]
        step == 2 ^ s
        q    == m \div step
        r    == m % step
        half == step \div 2
        up   == IF s = 0 THEN FALSE
                ELSE \/ r > half
                     \/ r = half /\ (sticky \/ q % 2 = 1)
    IN  Sign(n) * (IF up THEN q + 1 ELSE q) * step

Fl(n) == Rounded[n, FALSE]

\* the not-a-number value: an element apart from every number of the model
NaN == -(2 ^ 30)

Sum[a \in Int, b \in Int] == IF a = NaN \/ b = NaN THEN NaN ELSE Fl(a + b)

Difference[a \in Int, b \in Int] == IF a = NaN \/ b = NaN THEN NaN ELSE Fl(a - b)

\* a + b and a - b of the program
Add(a, b) == Sum[a, b]

Sub(a, b) == Difference[a, b]

\* a product that loses its factor k
TimesUnscaled(k, x) == Fl(x)

\* k * x for a whole number k
Times(k, x) == Fl(k * x)

\* quotient digits of a division by den, k more of them after <<q, r>>
LongDiv[q \in Nat, r \in Nat, den \in Nat, k \in Nat] ==
    IF k = 0 THEN <<q, r>>
    ELSE IF r >= den - r THEN LongDiv[2 * q + 1, r - (den - r), den, k - 1]
    ELSE LongDiv[2 * q, 2 * r, den, k - 1]

Quotient[num \in Nat, den \in Nat] ==
    LET qr == LongDiv[num \div den, num % den, den, FracBits]
        q  == qr[1]
        r  == qr[2]
    IN  IF q >= 2 ^ Precision THEN Rounded[q, r # 0]
        ELSE IF r > den - r \/ (r = den - r /\ q % 2 = 1) THEN q + 1
        ELSE q

\* num / den of the program, for positive operands
Div(num, den) == Quotient[num, den]

\* Math.pow(10, k * 16 / 400) * 65536 for k = -50 .. 50, to the nearest integer
PowTable ==
  << 655, 719, 788, 864, 947, 1039, 1139, 1249,
     1369, 1501, 1646, 1805, 1979, 2170, 2379, 2609,
     2861, 3137, 3439, 3771, 4135, 4534, 4971, 5451,
     5977, 6554, 7186, 7879, 8639, 9473, 10387, 11389,
     12488, 13692, 15013, 16462, 18050, 19792, 21701, 23795,
     26090, 28608, 31368, 34394, 37712, 41350, 45340, 49714,
     54510, 59770, 65536, 71859, 78792, 86393, 94728, 103868,
     113889, 124876, 136924, 150134, 164619, 180501, 197916, 217010,
     237947, 260904, 286075, 313675, 343938, 377120, 413504, 453398,
     497141, 545105, 597695, 655360, 718588, 787916, 863933, 947283,
     1038676, 1138885, 1248763, 1369241, 1501343, 1646190, 1805011, 1979156,
     2170101, 2379468, 2609035, 2860750, 3136750, 3439378, 3771203, 4135042,
     4533983, 4971414, 5451047, 5976954, 6553600 >>

\* floor division that is right for negative numerators too
FloorDiv(a, b) == IF a >= 0 THEN a \div b ELSE -((-a + b - 1) \div b)

\* the table above, linear between its entries (d in sixteenths of a rating
\* point), for d from -800 to 800 rating points
PowerInTable[d \in Int] ==
    LET x   == FloorDiv(d, Unit \div 16)
        lo  == -50 * 256
        hi  == 50 * 256
        c   == IF x < lo THEN lo ELSE IF x > hi THEN hi ELSE x
        k   == FloorDiv(c, 256)
        sub == c - k * 256
        a   == PowTable[k + 51]
        b   == IF k = 50 THEN a ELSE PowTable[k + 52]
        p   == a + ((b - a) * sub) \div 256
    IN  Fl(p * (Unit \div 65536))

\* Math.pow(10, d / 400): beyond the table, a factor 10 for every 400 rating
\* points; the ratings of the model are at most 1600 points apart
Power[d \in Int] ==
    IF d < -800 * Unit THEN Div(Power[d + 400 * Unit], 10 * Unit)
    ELSE IF d > 1600 * Unit THEN Power[1600 * Unit]
    ELSE IF d > 800 * Unit THEN Times(10, Power[d - 400 * Unit])
    ELSE PowerInTable[d]

Pow10Over400(d) == Power[d]

----------------------------------------------------------------------------
(* lib/elo *)

K_FACTOR == 32

Outcomes == {"A", "B", "draw"}

\* the result of a numeric function that raised its Error instead of returning
Thrown == NaN - 1

\* an expected score that looks only at how far apart the ratings are
expectedScoreOfGap(ratingA, ratingB) ==
    IF ratingA = NaN \/ ratingB = NaN THEN Thrown
    ELSE Div(Unit, Add(Unit, Pow10Over400(Abs(Sub(ratingB, ratingA)))))

\* return 1 / (1 + Math.pow(10, (ratingB - ratingA) / 400))
expectedScore(ratingA, ratingB) ==
    IF ratingA = NaN \/ ratingB = NaN THEN Thrown
    ELSE Div(Unit, Add(Unit, Pow10Over400(Sub(ratingB, ratingA))))

\* updatePairByOutcome that leaves the second player's rating alone
updatePairByOutcomeOneSided(ratingA, ratingB, outcome) ==
    IF ratingA = NaN \/ ratingB = NaN
    THEN [throws |-> TRUE, newA |-> NaN, newB |-> NaN, deltaA |-> NaN, deltaB |-> NaN]
    ELSE LET E_A    == expectedScore(ratingA, ratingB)
             S_A    == CASE outcome = "A" -> Unit
                         [] outcome = "B" -> 0
                         [] outcome = "draw" -> Unit \div 2
             deltaA == Times(K_FACTOR, Sub(S_A, E_A))
         IN  [throws |-> FALSE,
              newA |-> Add(ratingA, deltaA), newB |-> ratingB,
              deltaA |-> deltaA, deltaB |-> 0]

\* updatePairByOutcome without its test for NaN, the arithmetic carrying NaN on
updatePairByOutcomeUnvalidated(ratingA, ratingB, outcome) ==
    IF ratingA = NaN \/ ratingB = NaN
    THEN [throws |-> FALSE, newA |-> NaN, newB |-> NaN, deltaA |-> NaN, deltaB |-> NaN]
    ELSE [throws |-> FALSE,
          newA |-> Add(ratingA, Times(K_FACTOR, Sub(Unit, expectedScore(ratingA, ratingB)))),
          newB |-> Sub(ratingB, Times(K_FACTOR, Sub(Unit, expectedScore(ratingA, ratingB)))),
          deltaA |-> Times(K_FACTOR, Sub(Unit, expectedScore(ratingA, ratingB))),
          deltaB |-> -Times(K_FACTOR, Sub(Unit, expectedScore(ratingA, ratingB)))]

\* throws |-> TRUE stands for the raised Error
updatePairByOutcome(ratingA, ratingB, outcome) ==
    IF ratingA = NaN \/ ratingB = NaN
    THEN [throws |-> TRUE, newA |-> NaN, newB |-> NaN, deltaA |-> NaN, deltaB |-> NaN]
    ELSE LET E_A    == expectedScore(ratingA, ratingB)
             E_B    == Sub(Unit, E_A)
             S_A    == CASE outcome = "A" -> Unit
                         [] outcome = "B" -> 0
                         [] outcome = "draw" -> Unit \div 2
             S_B    == CASE outcome = "A" -> 0
                         [] outcome = "B" -> Unit
                         [] outcome = "draw" -> Unit \div 2
             deltaA == Times(K_FACTOR, Sub(S_A, E_A))
             deltaB == Times(K_FACTOR, Sub(S_B, E_B))
         IN  [throws |-> FALSE,
              newA |-> Add(ratingA, deltaA), newB |-> Add(ratingB, deltaB),
              deltaA |-> deltaA, deltaB |-> deltaB]

----------------------------------------------------------------------------
(* The store: the restaurants table and the votes table *)

\* largest number of calls (submitVote, undoVote) made one after the other
MaxCalls == 4

\* largest number of calls made against a store whose requests may fail
MaxFailCalls == 2

\* largest number of votes cast before overlapping calls begin
MaxPrelude == 2

\* rows of the restaurants table
RestaurantIds == {"r1", "r2", "r3", "r4"}

\* an id that resolves to no row
StaleId == "gone"

VOTABLE_CATEGORIES == {"value", "aesthetics", "speed"}

EloFields == {"eloGlobal", "eloValue", "eloAesthetics", "eloSpeed"}

\* the rating every column of a new row holds
Baseline == 1500 * Unit

Users == {"u1"}

\* the callers' requests: (winnerId, loserId, category)
VoteInputs ==
    { <<"r1", "r2", "value">>, <<"r2", "r1", "speed">>, <<"r1", "r3", "value">>,
      <<"r3", "r4", "aesthetics">>,
      <<"r1", "r1", "value">>, <<"r1", StaleId, "speed">>, <<StaleId, "r2", "value">> }

\* the client connections that can have a call in flight
Procs == {"p1", "p2"}

VARIABLES
    restaurants,  \* id -> row of the restaurants table
    votes,        \* the votes table, in insertion order; a vote's id is its position
    calls,        \* per connection: the call it runs and where that call stands
    log,          \* the calls that have returned or thrown, in that order
    elo,          \* a call of updatePairByOutcome: its input and what came of it
    matchup,      \* a GET /api/matchup request and where it stands
    page          \* the survey page: what it shows, remembers and has in flight

vars == <<restaurants, votes, calls, log, elo, matchup, page>>

null == [isNull |-> TRUE]

NoFields == [f \in {} |-> 0]

\* a key that names the value rating whatever the category
categoryKeyFixed(category) == "eloValue"

\* `elo${category.charAt(0).toUpperCase()}${category.slice(1)}`
categoryKey(category) ==
    CASE category = "value" -> "eloValue"
      [] category = "aesthetics" -> "eloAesthetics"
      [] category = "speed" -> "eloSpeed"
      [] category = "global" -> "eloGlobal"
      [] OTHER -> "elo" \o category

\* getRestaurantById that takes the first row for an id it does not find
getRestaurantByIdOrFirst(rs, id) == IF id \in DOMAIN rs THEN rs[id] ELSE rs["r1"]

\* select * from restaurants where id = ..., single(): the row or null
getRestaurantById(rs, id) == IF id \in DOMAIN rs THEN rs[id] ELSE null

\* update restaurants set fields, the where clause left out: every row
UpdateRowUnfiltered(rs, id, fields) ==
    [r \in DOMAIN rs |->
        [k \in DOMAIN rs[r] |-> IF k \in DOMAIN fields THEN fields[k] ELSE rs[r][k]]]

\* update restaurants set fields where id = ...: one row, or none when no row matches
UpdateRow(rs, id, fields) ==
    IF id \in DOMAIN rs
    THEN [rs EXCEPT ![id] =
            [k \in DOMAIN rs[id] |-> IF k \in DOMAIN fields THEN fields[k] ELSE rs[id][k]]]
    ELSE rs

\* select * from votes where id = ..., single(): the row with its id, or null
getVoteById(vs, voteId) ==
    IF voteId \in DOMAIN vs THEN vs[voteId] ELSE null

\* storeVote that overwrites the newest row where it should insert one
InsertVoteOverwriting(vs, winnerId, loserId, category, dGW, dGL, dCW, dCL, userId) ==
    LET n   == IF Len(vs) = 0 THEN 1 ELSE Len(vs)
        row == [voteId |-> n, userId |-> userId,
                winnerId |-> winnerId, loserId |-> loserId, category |-> category,
                deltaGlobalWinner |-> dGW, deltaGlobalLoser |-> dGL,
                deltaCatWinner |-> dCW, deltaCatLoser |-> dCL, undone |-> FALSE]
    IN  IF Len(vs) = 0 THEN <<row>> ELSE [vs EXCEPT ![n] = row]

\* insert into votes ... undone: false
InsertVote(vs, winnerId, loserId, category, dGW, dGL, dCW, dCL, userId) ==
    Append(vs, [voteId |-> Len(vs) + 1, userId |-> userId,
                winnerId |-> winnerId, loserId |-> loserId, category |-> category,
                deltaGlobalWinner |-> dGW, deltaGlobalLoser |-> dGL,
                deltaCatWinner |-> dCW, deltaCatLoser |-> dCL, undone |-> FALSE])

\* update votes set undone = true, the where clause left out: every row
SetUndoneUnfiltered(vs, voteId) ==
    [i \in DOMAIN vs |-> [vs[i] EXCEPT !.undone = TRUE]]

\* update votes that flips the undone flag of the row
SetUndoneToggling(vs, voteId) ==
    [i \in DOMAIN vs |-> IF i = voteId THEN [vs[i] EXCEPT !.undone = ~vs[i].undone]
                         ELSE vs[i]]

\* update votes set undone = true where id = ...
SetUndone(vs, voteId) ==
    [i \in DOMAIN vs |-> IF i = voteId THEN [vs[i] EXCEPT !.undone = TRUE] ELSE vs[i]]

----------------------------------------------------------------------------
(* Calls.  Every await of a handler is a request to the store; the store   *)
(* serves one request at a time, in any order, and the handler's code up   *)
(* to its next await runs with the reply.                                  *)

Idle ==
    [op |-> "none", pc |-> "idle", voteId |-> 0,
     winnerId |-> "", loserId |-> "", category |-> "", userId |-> "",
     reads |-> {}, writes |-> {}, winner |-> null, loser |-> null,
     updates |-> NoFields, row |-> null, result |-> null,
     pre |-> null, ord |-> 0, began |-> 0,
     sent |-> [winner |-> 0, loser |-> 0, vote |-> 0], rows |-> <<>>]

InFlight(c) == c.pc \notin {"idle", "returned", "thrown"}

\* sent counts the requests that change a table and that the store has received
\* from the call: the row update of its winner, of its loser, and its request on
\* the votes table

\* connection p has no call running and no request outstanding at the store
Free(p) == ~InFlight(calls[p]) /\ calls[p].writes = {}

\* nothing of any call is outstanding at the store
Quiescent == \A p \in Procs : Free(p)

Started == Len(log) + Cardinality({p \in Procs : InFlight(calls[p])})

Store == [restaurants |-> restaurants, votes |-> votes]

\* the record the log keeps of a call that ended: what it was, how it ended,
\* the store as it was when the call began (pre) and when it ended (post), how
\* many calls had begun before it (ord) and how many had ended before it began
Ended(c, post) ==
    [op |-> c.op, voteId |-> c.voteId, winnerId |-> c.winnerId, loserId |-> c.loserId,
     category |-> c.category, pc |-> c.pc, result |-> c.result, pre |-> c.pre,
     userId |-> c.userId, post |-> post, ord |-> c.ord, began |-> c.began]

\* a call that issues storeVote again when it failed
ThrowRetrying(c, message) ==
    IF message = "Failed to store vote" THEN c
    ELSE [c EXCEPT !.pc = "thrown", !.reads = {}, !.result = [error |-> message]]

Throw(c, message) ==
    [c EXCEPT !.pc = "thrown", !.reads = {}, !.result = [error |-> message]]

Return(c, value) == [c EXCEPT !.pc = "returned", !.reads = {}, !.result = value]

\* the call of p becomes c; a call that ended is logged
Settle(p, c) ==
    /\ UNCHANGED <<elo, matchup, page>>
    /\ calls' = [calls EXCEPT ![p] = c]
    /\ log' = IF InFlight(c) THEN log
              ELSE Append(log, Ended(c, [restaurants |-> restaurants', votes |-> votes']))

(* lib/votes/submit.ts *)

\* submitVote without its test of winner against loser
SubmitBeginUnchecked(c) == [c EXCEPT !.pc = "fetch", !.reads = {"winner", "loser"}]

\* submitVote up to its first await
SubmitBegin(c) ==
    IF c.winnerId = c.loserId
    THEN Throw(c, "Winner and loser must be different restaurants")
    ELSE [c EXCEPT !.pc = "fetch", !.reads = {"winner", "loser"}]

\* submitVote from the reply of both getRestaurantById to updateRestaurantRatings
SubmitFetched(c) ==
    IF c.winner = null THEN Throw(c, "Winner restaurant not found")
    ELSE IF c.loser = null THEN Throw(c, "Loser restaurant not found")
    ELSE LET key == categoryKey(c.category)
             g   == updatePairByOutcome(c.winner.eloGlobal, c.loser.eloGlobal, "A")
             k   == updatePairByOutcome(c.winner[key], c.loser[key], "A")
         IN  IF g.throws \/ k.throws THEN Throw(c, "ELO ratings cannot be NaN")
             ELSE [c EXCEPT
                     !.pc = "update",
                     !.writes = {"winner", "loser"},
                     !.updates = [winner |-> (key :> k.newA) @@ [eloGlobal |-> g.newA],
                                  loser  |-> (key :> k.newB) @@ [eloGlobal |-> g.newB]],
                     !.row = [deltaGlobalWinner |-> g.deltaA, deltaGlobalLoser |-> g.deltaB,
                              deltaCatWinner |-> k.deltaA, deltaCatLoser |-> k.deltaB],
                     !.winner = [c.winner EXCEPT !.eloGlobal = g.newA, ![key] = k.newA],
                     !.loser = [c.loser EXCEPT !.eloGlobal = g.newB, ![key] = k.newB]]

\* submitVote from the reply of updateRestaurantRatings to storeVote
SubmitUpdated(c) == [c EXCEPT !.pc = "store"]

\* submitVote from the reply of storeVote to its return
SubmitStored(c, voteId) ==
    Return([c EXCEPT !.voteId = voteId],
           [voteId |-> voteId, winner |-> c.winner, loser |-> c.loser])

(* lib/votes/undo.ts *)

\* undoVote up to its first await
UndoBegin(c) == [c EXCEPT !.pc = "getVote"]

\* undoVote without its test of the undone flag
UndoLookedUnguarded(c, voteData) ==
    IF voteData = null THEN Return(c, [success |-> FALSE, reason |-> "Vote not found"])
    ELSE [c EXCEPT !.pc = "fetch", !.reads = {"winner", "loser"},
                   !.winnerId = voteData.winnerId, !.loserId = voteData.loserId,
                   !.category = voteData.category,
                   !.row = [deltaGlobalWinner |-> voteData.deltaGlobalWinner,
                            deltaGlobalLoser |-> voteData.deltaGlobalLoser,
                            deltaCatWinner |-> voteData.deltaCatWinner,
                            deltaCatLoser |-> voteData.deltaCatLoser]]

\* undoVote that throws for a vote it does not find
UndoLookedThrowing(c, voteData) ==
    IF voteData = null THEN Throw(c, "Vote not found")
    ELSE IF voteData.undone
    THEN Return(c, [success |-> FALSE, reason |-> "Vote already undone"])
    ELSE [c EXCEPT !.pc = "fetch", !.reads = {"winner", "loser"},
                   !.winnerId = voteData.winnerId, !.loserId = voteData.loserId,
                   !.category = voteData.category,
                   !.row = [deltaGlobalWinner |-> voteData.deltaGlobalWinner,
                            deltaGlobalLoser |-> voteData.deltaGlobalLoser,
                            deltaCatWinner |-> voteData.deltaCatWinner,
                            deltaCatLoser |-> voteData.deltaCatLoser]]

\* undoVote from the reply of getVoteById to the two getRestaurantById
UndoLooked(c, voteData) ==
    IF voteData = null THEN Return(c, [success |-> FALSE, reason |-> "Vote not found"])
    ELSE IF voteData.undone
    THEN Return(c, [success |-> FALSE, reason |-> "Vote already undone"])
    ELSE [c EXCEPT !.pc = "fetch", !.reads = {"winner", "loser"},
                   !.winnerId = voteData.winnerId, !.loserId = voteData.loserId,
                   !.category = voteData.category,
                   !.row = [deltaGlobalWinner |-> voteData.deltaGlobalWinner,
                            deltaGlobalLoser |-> voteData.deltaGlobalLoser,
                            deltaCatWinner |-> voteData.deltaCatWinner,
                            deltaCatLoser |-> voteData.deltaCatLoser]]

\* undoVote that marks the vote undone when a restaurant of it is not found
UndoFetchedMarking(c) ==
    IF c.winner = null \/ c.loser = null
    THEN [c EXCEPT !.pc = "mark"]
    ELSE LET key == categoryKey(c.category)
         IN  [c EXCEPT
                 !.pc = "update",
                 !.writes = {"winner", "loser"},
                 !.updates =
                     [winner |-> (key :> Sub(c.winner[key], c.row.deltaCatWinner))
                                 @@ [eloGlobal |-> Sub(c.winner.eloGlobal, c.row.deltaGlobalWinner)],
                      loser  |-> (key :> Sub(c.loser[key], c.row.deltaCatLoser))
                                 @@ [eloGlobal |-> Sub(c.loser.eloGlobal, c.row.deltaGlobalLoser)]]]

\* undoVote from the reply of both getRestaurantById to updateRestaurantRatings
UndoFetched(c) ==
    IF c.winner = null \/ c.loser = null
    THEN Return(c, [success |-> FALSE, reason |-> "Restaurant(s) not found"])
    ELSE LET key == categoryKey(c.category)
             restoredWinnerGlobal == Sub(c.winner.eloGlobal, c.row.deltaGlobalWinner)
             restoredWinnerCat    == Sub(c.winner[key], c.row.deltaCatWinner)
             restoredLoserGlobal  == Sub(c.loser.eloGlobal, c.row.deltaGlobalLoser)
             restoredLoserCat     == Sub(c.loser[key], c.row.deltaCatLoser)
         IN  [c EXCEPT
                 !.pc = "update",
                 !.writes = {"winner", "loser"},
                 !.updates =
                     [winner |-> (key :> restoredWinnerCat) @@ [eloGlobal |-> restoredWinnerGlobal],
                      loser  |-> (key :> restoredLoserCat) @@ [eloGlobal |-> restoredLoserGlobal]]]

\* undoVote from the reply of updateRestaurantRatings to markVoteUndone
UndoUpdated(c) == [c EXCEPT !.pc = "mark"]

\* undoVote from the reply of markVoteUndone to the second two getRestaurantById
UndoMarked(c) == [c EXCEPT !.pc = "refetch", !.reads = {"winner", "loser"}]

\* undoVote from the reply of the second two getRestaurantById to its return
UndoRefetched(c) ==
    Return(c, [success |-> TRUE, winner |-> c.winner, loser |-> c.loser])

----------------------------------------------------------------------------
(* Steps *)

IdOf(c, slot) == IF slot = "winner" THEN c.winnerId ELSE c.loserId

\* a caller invokes submitVote(input)
SubmitVote(p, input, userId) ==
    /\ Free(p)
    /\ UNCHANGED <<restaurants, votes>>
    /\ Settle(p, SubmitBegin([Idle EXCEPT !.op = "submit",
                                 !.winnerId = input[1], !.loserId = input[2],
                                 !.category = input[3], !.userId = userId,
                                 !.pre = Store, !.ord = Started,
                                 !.began = Len(log)]))

\* a caller invokes undoVote(voteId)
UndoVote(p, voteId) ==
    /\ Free(p)
    /\ UNCHANGED <<restaurants, votes>>
    /\ Settle(p, UndoBegin([Idle EXCEPT !.op = "undo", !.voteId = voteId,
                                        !.pre = Store, !.ord = Started,
                                        !.began = Len(log)]))

\* the store answers one getRestaurantById of p
GetRestaurantById(p, slot) ==
    LET c    == calls[p]
        got  == getRestaurantById(restaurants, IdOf(c, slot))
        d    == [c EXCEPT ![slot] = got, !.reads = c.reads \ {slot}]
    IN  /\ c.pc \in {"fetch", "refetch"}
        /\ slot \in c.reads
        /\ UNCHANGED <<restaurants, votes>>
        /\ Settle(p, IF d.reads # {} THEN d
                     ELSE IF c.op = "submit" THEN SubmitFetched(d)
                     ELSE IF c.pc = "fetch" THEN UndoFetched(d)
                     ELSE UndoRefetched(d))

\* the store applies one row update of p's updateRestaurantRatings
UpdateRestaurantRatings(p, slot) ==
    LET c == calls[p]
        d == [c EXCEPT !.writes = c.writes \ {slot}, !.sent[slot] = @ + 1]
    IN  /\ slot \in c.writes
        /\ restaurants' = UpdateRow(restaurants, IdOf(c, slot), c.updates[slot])
        /\ UNCHANGED votes
        /\ IF c.pc = "update"
           THEN Settle(p, IF d.writes # {} THEN d
                          ELSE IF c.op = "submit" THEN SubmitUpdated(d)
                          ELSE UndoUpdated(d))
           ELSE calls' = [calls EXCEPT ![p] = d] /\ UNCHANGED <<log, elo, matchup, page>>

\* the store inserts the row of p's storeVote
StoreVote(p) ==
    LET c == calls[p]
    IN  /\ c.pc = "store"
        /\ votes' = InsertVote(votes, c.winnerId, c.loserId, c.category,
                               c.row.deltaGlobalWinner, c.row.deltaGlobalLoser,
                               c.row.deltaCatWinner, c.row.deltaCatLoser, c.userId)
        /\ UNCHANGED restaurants
        /\ Settle(p, SubmitStored([c EXCEPT !.sent.vote = @ + 1], Len(votes) + 1))

\* the store answers p's getVoteById
GetVoteById(p) ==
    LET c == calls[p]
    IN  /\ c.pc = "getVote"
        /\ UNCHANGED <<restaurants, votes>>
        /\ Settle(p, UndoLooked(c, getVoteById(votes, c.voteId)))

\* the store applies p's markVoteUndone
MarkVoteUndone(p) ==
    LET c == calls[p]
    IN  /\ c.pc = "mark"
        /\ votes' = SetUndone(votes, c.voteId)
        /\ UNCHANGED restaurants
        /\ Settle(p, UndoMarked([c EXCEPT !.sent.vote = @ + 1]))

(* the same requests when the store answers with an error *)

\* getRestaurantById throws `Failed to fetch restaurant`, its one retry included
GetRestaurantByIdFails(p, slot) ==
    LET c == calls[p]
    IN  /\ c.pc \in {"fetch", "refetch"}
        /\ slot \in c.reads
        /\ UNCHANGED <<restaurants, votes>>
        /\ Settle(p, Throw(c, "Failed to fetch restaurant"))

\* one row update fails: Promise.all rejects, the other update stays on its way
UpdateRestaurantRatingsFails(p, slot) ==
    LET c == calls[p]
        d == [c EXCEPT !.writes = c.writes \ {slot}, !.sent[slot] = @ + 1]
    IN  /\ slot \in c.writes
        /\ UNCHANGED <<restaurants, votes>>
        /\ IF c.pc = "update" THEN Settle(p, Throw(d, "Failed to update restaurant"))
           ELSE calls' = [calls EXCEPT ![p] = d] /\ UNCHANGED <<log, elo, matchup, page>>

\* storeVote throws `Failed to store vote`
StoreVoteFails(p) ==
    LET c == calls[p]
    IN  /\ c.pc = "store"
        /\ UNCHANGED <<restaurants, votes>>
        /\ Settle(p, Throw([c EXCEPT !.sent.vote = @ + 1], "Failed to store vote"))

\* getVoteById throws `Failed to fetch vote`
GetVoteByIdFails(p) ==
    LET c == calls[p]
    IN  /\ c.pc = "getVote"
        /\ UNCHANGED <<restaurants, votes>>
        /\ Settle(p, Throw(c, "Failed to fetch vote"))

\* markVoteUndone throws `Failed to mark vote as undone`
MarkVoteUndoneFails(p) ==
    LET c == calls[p]
    IN  /\ c.pc = "mark"
        /\ UNCHANGED <<restaurants, votes>>
        /\ Settle(p, Throw([c EXCEPT !.sent.vote = @ + 1], "Failed to mark vote as undone"))

----------------------------------------------------------------------------
(* Specifications *)

NewRow(id) ==
    [id |-> id, eloGlobal |-> Baseline, eloValue |-> Baseline,
     eloAesthetics |-> Baseline, eloSpeed |-> Baseline]

Row(id, g, v, a, s) ==
    [id |-> id, eloGlobal |-> g * (Unit \div 2), eloValue |-> v * (Unit \div 2),
     eloAesthetics |-> a * (Unit \div 2), eloSpeed |-> s * (Unit \div 2)]

\* the tables a behaviour may start from: every row new, and a table that has
\* been played on (ratings given in halves of a point)
StartTables ==
    { [id \in RestaurantIds |-> NewRow(id)],
      [id \in RestaurantIds |->
          CASE id = "r1" -> Row(id, 2961, 3032, 3000, 2968)
            [] id = "r2" -> Row(id, 3015, 2968, 3000, 3032)
            [] id = "r3" -> Row(id, 3032, 3000, 3032, 3000)
            [] OTHER     -> Row(id, 2968, 3000, 2968, 3000)] }

Init ==
    /\ restaurants \in StartTables
    /\ votes = <<>>
    /\ calls = [p \in Procs |-> Idle]
    /\ log = <<>>
    /\ elo = null
    /\ matchup = null
    /\ page = null

\* the vote ids a caller may hold: every id handed out, and one never handed out
VoteIds == 1..(Len(votes) + 1)

\* one caller, one call at a time, a store that never fails
Next ==
    \/ \E input \in VoteInputs, u \in Users :
          Quiescent /\ Started < MaxCalls /\ SubmitVote("p1", input, u)
    \/ \E v \in VoteIds : Quiescent /\ Started < MaxCalls /\ UndoVote("p1", v)
    \/ \E slot \in {"winner", "loser"} : GetRestaurantById("p1", slot)
    \/ \E slot \in {"winner", "loser"} : UpdateRestaurantRatings("p1", slot)
    \/ StoreVote("p1")
    \/ GetVoteById("p1")
    \/ MarkVoteUndone("p1")

Spec == Init /\ [][Next]_vars

\* one caller, one call at a time, a store whose every request may fail
NextFail ==
    \/ \E input \in VoteInputs, u \in Users :
          Quiescent /\ Started < MaxFailCalls /\ SubmitVote("p1", input, u)
    \/ \E v \in VoteIds : Quiescent /\ Started < MaxFailCalls /\ UndoVote("p1", v)
    \/ \E slot \in {"winner", "loser"} : GetRestaurantById("p1", slot)
    \/ \E slot \in {"winner", "loser"} : UpdateRestaurantRatings("p1", slot)
    \/ StoreVote("p1")
    \/ GetVoteById("p1")
    \/ MarkVoteUndone("p1")
    \/ \E slot \in {"winner", "loser"} : GetRestaurantByIdFails("p1", slot)
    \/ \E slot \in {"winner", "loser"} : UpdateRestaurantRatingsFails("p1", slot)
    \/ StoreVoteFails("p1")
    \/ GetVoteByIdFails("p1")
    \/ MarkVoteUndoneFails("p1")

SpecFail == Init /\ [][NextFail]_vars

(* Whole calls, for stating what a call run alone does to a store *)

\* call c with the rows its two getRestaurantById read from store st
Fetched(st, c) ==
    [c EXCEPT !.winner = getRestaurantById(st.restaurants, c.winnerId),
              !.loser = getRestaurantById(st.restaurants, c.loserId),
              !.reads = {}]

\* store st after both row updates of call c
Updated(st, c) ==
    UpdateRow(UpdateRow(st.restaurants, c.winnerId, c.updates.winner),
              c.loserId, c.updates.loser)

\* store st after the writes of a submitVote that stands at c, its reads done
SubmitApplied(st, c) ==
    IF c.pc # "update" THEN st
    ELSE [restaurants |-> Updated(st, c),
          votes |-> InsertVote(st.votes, c.winnerId, c.loserId, c.category,
                               c.row.deltaGlobalWinner, c.row.deltaGlobalLoser,
                               c.row.deltaCatWinner, c.row.deltaCatLoser, c.userId)]

SubmitRead(st, c) == IF c.pc # "fetch" THEN c ELSE SubmitFetched(Fetched(st, c))

\* the store after submitVote(input) ran alone on store st
RunSubmit(st, input, userId) ==
    SubmitApplied(st, SubmitRead(st,
        SubmitBegin([Idle EXCEPT !.op = "submit", !.winnerId = input[1],
                         !.loserId = input[2], !.category = input[3],
                         !.userId = userId])))

\* store st after the writes of an undoVote that stands at c, its reads done
UndoApplied(st, c) ==
    IF c.pc # "update" THEN st
    ELSE [restaurants |-> Updated(st, c), votes |-> SetUndone(st.votes, c.voteId)]

UndoRead(st, c) == IF c.pc # "fetch" THEN c ELSE UndoFetched(Fetched(st, c))

\* the store after undoVote(voteId) ran alone on store st
RunUndo(st, voteId) ==
    UndoApplied(st, UndoRead(st,
        UndoLooked(UndoBegin([Idle EXCEPT !.op = "undo", !.voteId = voteId]),
                   getVoteById(st.votes, voteId))))

\* a submitVote that runs from its call to its return before any other call begins
SubmitVoteAlone(input, userId) ==
    /\ \A p \in Procs : calls[p].pc = "idle"
    /\ Len(votes) < MaxPrelude
    /\ \E st \in {RunSubmit(Store, input, userId)} :
          restaurants' = st.restaurants /\ votes' = st.votes
    /\ UNCHANGED <<calls, log, elo, matchup, page>>

\* the votes cast before the overlapping calls begin
PreludeInputs ==
    { <<"r1", "r2", "value">>, <<"r1", "r3", "value">>, <<"r3", "r4", "aesthetics">> }

InitConc == Init /\ restaurants = [id \in RestaurantIds |-> NewRow(id)]

\* connection p has made no call yet; the connections are alike, and "p2" is
\* taken once "p1" is in use
Unused(p) == calls[p].pc = "idle" /\ (p = "p1" \/ calls["p1"].pc # "idle")

\* one call on every connection, the calls overlapping, a store that never fails
NextConc ==
    \/ \E input \in PreludeInputs, u \in Users : SubmitVoteAlone(input, u)
    \/ \E p \in Procs, input \in VoteInputs, u \in Users :
          Unused(p) /\ SubmitVote(p, input, u)
    \/ \E p \in Procs, v \in VoteIds : Unused(p) /\ UndoVote(p, v)
    \/ \E p \in Procs, slot \in {"winner", "loser"} : GetRestaurantById(p, slot)
    \/ \E p \in Procs, slot \in {"winner", "loser"} : UpdateRestaurantRatings(p, slot)
    \/ \E p \in Procs : StoreVote(p)
    \/ \E p \in Procs : GetVoteById(p)
    \/ \E p \in Procs : MarkVoteUndone(p)

SpecConc == InitConc /\ [][NextConc]_vars

----------------------------------------------------------------------------
(* lib/elo called on its own *)

\* ratings handed to updatePairByOutcome, in halves of a point: 1200 .. 1800,
\* and the not-a-number value
EloRatings ==
    {g * (Unit \div 2) : g \in {400, 2400, 2800, 2961, 3000, 3015, 3200, 3600}} \cup {NaN}

InitElo ==
    /\ restaurants = [id \in RestaurantIds |-> NewRow(id)]
    /\ votes = <<>>
    /\ calls = [p \in Procs |-> Idle]
    /\ log = <<>>
    /\ matchup = null
    /\ page = null
    /\ elo \in [ratingA : EloRatings, ratingB : EloRatings, outcome : Outcomes,
                out : {null}, expected : {null}]

\* updatePairByOutcome({ ratingA, ratingB, outcome })
UpdatePairByOutcome ==
    /\ elo.out = null
    /\ elo' = [elo EXCEPT !.out = updatePairByOutcome(elo.ratingA, elo.ratingB, elo.outcome)]
    /\ UNCHANGED <<restaurants, votes, calls, log, matchup, page>>

\* expectedScore(ratingA, ratingB) and expectedScore(ratingB, ratingA)
ExpectedScore ==
    /\ elo.expected = null
    /\ elo' = [elo EXCEPT !.expected = [ab |-> expectedScore(elo.ratingA, elo.ratingB),
                                        ba |-> expectedScore(elo.ratingB, elo.ratingA)]]
    /\ UNCHANGED <<restaurants, votes, calls, log, matchup, page>>

NextElo == UpdatePairByOutcome \/ ExpectedScore

SpecElo == InitElo /\ [][NextElo]_vars

----------------------------------------------------------------------------
(* POST /api/vote *)

\* largest number of requests made to the route, one after the other
MaxApiCalls == 3

\* request bodies: votes the route passes on, a category that is not votable,
\* the same restaurant twice, a missing field, an id with no row
VoteBodies ==
    { [matchupId |-> "m1", winnerId |-> "r1", loserId |-> "r2", category |-> "value"],
      [matchupId |-> "m2", winnerId |-> "r3", loserId |-> "r4", category |-> "speed"],
      [matchupId |-> "m3", winnerId |-> "r1", loserId |-> "r2", category |-> "global"],
      [matchupId |-> "m4", winnerId |-> "r1", loserId |-> "r1", category |-> "value"],
      [matchupId |-> "m5", winnerId |-> "", loserId |-> "r2", category |-> "value"],
      [matchupId |-> "m6", winnerId |-> "r1", loserId |-> StaleId, category |-> "value"] }

BadRequest(message) == [ok |-> FALSE, status |-> 400, error |-> message]

\* the route with its test of the category left out
PostVoteRejectsAnyCategory(body) ==
    IF body.matchupId = "" \/ body.winnerId = "" \/ body.loserId = "" \/ body.category = ""
    THEN BadRequest("Missing required fields: matchupId, winnerId, loserId, category")
    ELSE IF body.winnerId = body.loserId
    THEN BadRequest("Winner and loser must be different restaurants")
    ELSE null

\* the response with which the route turns a body down before it calls submitVote,
\* null for a body it passes on
PostVoteRejects(body) ==
    IF body.matchupId = "" \/ body.winnerId = "" \/ body.loserId = "" \/ body.category = ""
    THEN BadRequest("Missing required fields: matchupId, winnerId, loserId, category")
    ELSE IF body.category \notin VOTABLE_CATEGORIES
    THEN BadRequest("Invalid category. Must be one of: value, aesthetics, speed")
    ELSE IF body.winnerId = body.loserId
    THEN BadRequest("Winner and loser must be different restaurants")
    ELSE null

\* the messages of submitVote's errors that include 'not found' or 'different'
ValidationMessages ==
    { "Winner restaurant not found", "Loser restaurant not found",
      "Winner and loser must be different restaurants" }

\* the response the route makes of the submitVote call e that ended
PostVoteResponse(e) ==
    IF e.pc = "returned" THEN [ok |-> TRUE, status |-> 200, data |-> e.result]
    ELSE IF e.result.error \in ValidationMessages
    THEN [ok |-> FALSE, status |-> 422, error |-> e.result.error]
    ELSE [ok |-> FALSE, status |-> 500, error |-> "Internal server error"]

\* a client posts body to /api/vote
PostVote(p, body, userId) ==
    /\ Free(p)
    /\ UNCHANGED <<restaurants, votes>>
    /\ LET c == [Idle EXCEPT !.winnerId = body.winnerId, !.loserId = body.loserId,
                             !.category = body.category, !.userId = userId,
                             !.pre = Store, !.ord = Started, !.began = Len(log)]
           r == PostVoteRejects(body)
       IN  IF r # null THEN Settle(p, Return([c EXCEPT !.op = "vote"], r))
           ELSE Settle(p, SubmitBegin([c EXCEPT !.op = "submit"]))

\* one client of the route, one request at a time, a store that never fails
NextApi ==
    \/ \E body \in VoteBodies, u \in Users :
          Quiescent /\ Started < MaxApiCalls /\ PostVote("p1", body, u)
    \/ \E slot \in {"winner", "loser"} : GetRestaurantById("p1", slot)
    \/ \E slot \in {"winner", "loser"} : UpdateRestaurantRatings("p1", slot)
    \/ StoreVote("p1")

SpecApi == Init /\ [][NextApi]_vars

----------------------------------------------------------------------------
(* GET /api/matchup and lib/matchup *)

\* the rows of the restaurants table in the order of their names
RestaurantOrder == <<"r1", "r2", "r3", "r4">>

\* the category parameters of a request: the votable ones, one that is not, none
CategoryParams == VOTABLE_CATEGORIES \cup {"global", ""}

\* a getAllRestaurants without its filter on the active column
getAllRestaurantsInactiveToo(rs, active) ==
    LET ids == SelectSeq(RestaurantOrder, LAMBDA id : id \in DOMAIN rs)
    IN  [i \in 1..Len(ids) |-> rs[ids[i]]]

\* select * from restaurants where active = true order by name
getAllRestaurants(rs, active) ==
    LET ids == SelectSeq(RestaurantOrder, LAMBDA id : id \in active /\ id \in DOMAIN rs)
    IN  [i \in 1..Len(ids) |-> rs[ids[i]]]

\* a source of random numbers that always gives the same one
RandomIndexStuck(n) == {0}

\* the values Math.floor(Math.random() * n) can take
RandomIndex(n) == 0..(n - 1)

\* a request not yet made, on a table whose active rows are `active`
NoRequest(active) ==
    [active |-> active, pc |-> "idle", category |-> "", fetched |-> FALSE,
     restaurants |-> <<>>, indexA |-> 0, indexB |-> 0, made |-> null, response |-> null]

Respond(g, response) == [g EXCEPT !.pc = "done", !.response = response]

\* the route up to its call of generateMatchup, and generateMatchup up to its await
MatchupBegin(g, category) ==
    IF category = ""
    THEN Respond(g, BadRequest("Missing required query parameter: category"))
    ELSE IF category \notin VOTABLE_CATEGORIES
    THEN Respond(g, BadRequest("Invalid category. Must be one of: value, aesthetics, speed"))
    ELSE [g EXCEPT !.pc = "getAll", !.category = category]

\* generateMatchup that asks for one restaurant only
MatchupFetchedAtLeastOne(g, rows) ==
    IF Len(rows) < 1
    THEN Respond([g EXCEPT !.fetched = TRUE, !.restaurants = rows],
                 [ok |-> FALSE, status |-> 404, error |-> "Need at least 2 restaurants"])
    ELSE [g EXCEPT !.pc = "drawA", !.fetched = TRUE, !.restaurants = rows]

\* generateMatchup from the reply of getAllRestaurants to its first draw; the
\* route answers a NoMatchupError with 404
MatchupFetched(g, rows) ==
    IF Len(rows) < 2
    THEN Respond([g EXCEPT !.fetched = TRUE, !.restaurants = rows],
                 [ok |-> FALSE, status |-> 404, error |-> "Need at least 2 restaurants"])
    ELSE [g EXCEPT !.pc = "drawA", !.fetched = TRUE, !.restaurants = rows]

\* generateMatchup that takes the second index as it is drawn
LoopTestSkipped(g) ==
    [g EXCEPT !.pc = "details",
              !.made = [category |-> g.category,
                        a |-> g.restaurants[g.indexA + 1].id,
                        b |-> g.restaurants[g.indexB + 1].id]]

\* while (indexB === indexA) draw again; then the matchup, and the route's await
\* of getRestaurantsByIds
LoopTest(g) ==
    IF g.indexB = g.indexA THEN [g EXCEPT !.pc = "resample"]
    ELSE [g EXCEPT !.pc = "details",
                   !.made = [category |-> g.category,
                             a |-> g.restaurants[g.indexA + 1].id,
                             b |-> g.restaurants[g.indexB + 1].id]]

\* a client requests /api/matchup?category=...
GetMatchup(category) ==
    /\ matchup.pc \in {"idle", "done"}
    /\ matchup' = MatchupBegin(NoRequest(matchup.active), category)
    /\ UNCHANGED <<restaurants, votes, calls, log, elo, page>>

\* the store answers getAllRestaurants
GetAllRestaurants ==
    /\ matchup.pc = "getAll"
    /\ matchup' = MatchupFetched(matchup, getAllRestaurants(restaurants, matchup.active))
    /\ UNCHANGED <<restaurants, votes, calls, log, elo, page>>

\* the store fails getAllRestaurants
GetAllRestaurantsFails ==
    /\ matchup.pc = "getAll"
    /\ matchup' = Respond(matchup, [ok |-> FALSE, status |-> 500,
                                    error |-> "Internal server error"])
    /\ UNCHANGED <<restaurants, votes, calls, log, elo, page>>

\* const indexA = Math.floor(Math.random() * restaurants.length)
DrawIndexA(i) ==
    /\ matchup.pc = "drawA"
    /\ i \in RandomIndex(Len(matchup.restaurants))
    /\ matchup' = [matchup EXCEPT !.pc = "drawB", !.indexA = i]
    /\ UNCHANGED <<restaurants, votes, calls, log, elo, page>>

\* let indexB = Math.floor(Math.random() * restaurants.length)
DrawIndexB(i) ==
    /\ matchup.pc = "drawB"
    /\ i \in RandomIndex(Len(matchup.restaurants))
    /\ matchup' = LoopTest([matchup EXCEPT !.indexB = i])
    /\ UNCHANGED <<restaurants, votes, calls, log, elo, page>>

\* one turn of the loop: indexB = Math.floor(Math.random() * restaurants.length)
Resample(i) ==
    /\ matchup.pc = "resample"
    /\ i \in RandomIndex(Len(matchup.restaurants))
    /\ matchup' = LoopTest([matchup EXCEPT !.indexB = i])
    /\ UNCHANGED <<restaurants, votes, calls, log, elo, page>>

\* the store answers getRestaurantsByIds([matchup.a, matchup.b]), the rows in an
\* order of its choosing
GetRestaurantsByIds ==
    /\ matchup.pc = "details"
    /\ \E first \in {matchup.made.a, matchup.made.b} :
          LET second == IF first = matchup.made.a THEN matchup.made.b ELSE matchup.made.a
          IN  matchup' = Respond(matchup,
                  [ok |-> TRUE, status |-> 200,
                   data |-> [matchup |-> matchup.made,
                             restaurantA |-> restaurants[first],
                             restaurantB |-> restaurants[second]]])
    /\ UNCHANGED <<restaurants, votes, calls, log, elo, page>>

InitMatchup ==
    /\ restaurants = [id \in RestaurantIds |-> NewRow(id)]
    /\ votes = <<>>
    /\ calls = [p \in Procs |-> Idle]
    /\ log = <<>>
    /\ elo = null
    /\ matchup \in {NoRequest(active) : active \in SUBSET RestaurantIds}
    /\ page = null

NextMatchup ==
    \/ \E category \in CategoryParams : GetMatchup(category)
    \/ GetAllRestaurants
    \/ GetAllRestaurantsFails
    \/ \E i \in 0..(Len(RestaurantOrder) - 1) : DrawIndexA(i)
    \/ \E i \in 0..(Len(RestaurantOrder) - 1) : DrawIndexB(i)
    \/ \E i \in 0..(Len(RestaurantOrder) - 1) : Resample(i)
    \/ GetRestaurantsByIds

SpecMatchup == InitMatchup /\ [][NextMatchup]_vars

\* a turn of the loop that draws an index other than indexA
ResampleOther ==
    \E i \in 0..(Len(RestaurantOrder) - 1) : i # matchup.indexA /\ Resample(i)

\* every request is served, every draw is made, and of the draws of the loop the
\* one that differs from indexA is not put off for ever
FairMatchup ==
    /\ WF_vars(GetAllRestaurants)
    /\ WF_vars(\E i \in 0..(Len(RestaurantOrder) - 1) : DrawIndexA(i))
    /\ WF_vars(\E i \in 0..(Len(RestaurantOrder) - 1) : DrawIndexB(i))
    /\ WF_vars(ResampleOther)
    /\ WF_vars(GetRestaurantsByIds)

SpecMatchupFair == SpecMatchup /\ FairMatchup

----------------------------------------------------------------------------
(* lib/personalRankings: the rankings one user's votes give *)

PersonalUsers == {"u1", "u2"}

\* the categories the rankings route lets through
RankingCategories == {"global"} \cup VOTABLE_CATEGORIES

\* lib/db/votes, getVotesByUser that returns the user's undone votes too
getVotesByUserWithUndone(vs, userId) ==
    SelectSeq(vs, LAMBDA v : v.userId = userId)

\* lib/db/votes, getVotesByUser: the user's votes that are not undone, oldest first
getVotesByUser(vs, userId) ==
    SelectSeq(vs, LAMBDA v : v.userId = userId /\ ~v.undone)

\* a selection that filters by category for 'global' as well
relevantVotesFiltered(vs, category) ==
    SelectSeq(vs, LAMBDA v : v.category = category)

\* category === 'global' ? votes : votes.filter(v => v.category === category)
relevantVotes(vs, category) ==
    IF category = "global" THEN vs
    ELSE SelectSeq(vs, LAMBDA v : v.category = category)

\* ratingById.get(id) ?? 1500
RatingOf(ratingById, id) ==
    IF id \in DOMAIN ratingById THEN ratingById[id] ELSE Baseline

\* one turn of the replay loop: the vote's winner beats its loser
ReplayVote(ratingById, v) ==
    LET u == updatePairByOutcome(RatingOf(ratingById, v.winnerId),
                                 RatingOf(ratingById, v.loserId), "A")
    IN  (v.loserId :> u.newB) @@ (v.winnerId :> u.newA) @@ ratingById

RECURSIVE ReplayVotesBackwards(_, _)
\* a replay that takes the newest vote first
ReplayVotesBackwards(ratingById, vs) ==
    IF vs = <<>> THEN ratingById
    ELSE ReplayVotesBackwards(ReplayVote(ratingById, vs[Len(vs)]), SubSeq(vs, 1, Len(vs) - 1))

RECURSIVE ReplayVotes(_, _)
\* for (const v of relevantVotes) { ... }
ReplayVotes(ratingById, vs) ==
    IF vs = <<>> THEN ratingById
    ELSE ReplayVotes(ReplayVote(ratingById, Head(vs)), Tail(vs))

\* the place each row takes when the rows are sorted: before[i][j] says that row
\* j comes before row i
Placed(rows, before) ==
    LET n     == Len(rows)
        place == [i \in 1..n |-> 1 + Cardinality({j \in 1..n : before[i][j]})]
    IN  [k \in 1..n |-> rows[CHOOSE i \in 1..n : place[i] = k]]

\* a sort that puts the lowest rating first
SortByRatingAscending(rows, ratingById) ==
    Placed(rows, [i \in 1..Len(rows) |-> [j \in 1..Len(rows) |->
        \/ RatingOf(ratingById, rows[j].id) < RatingOf(ratingById, rows[i].id)
        \/ /\ RatingOf(ratingById, rows[j].id) = RatingOf(ratingById, rows[i].id)
           /\ j < i]])

\* a sort that turns rows of equal rating around
SortByRatingUnstable(rows, ratingById) ==
    Placed(rows, [i \in 1..Len(rows) |-> [j \in 1..Len(rows) |->
        \/ RatingOf(ratingById, rows[j].id) > RatingOf(ratingById, rows[i].id)
        \/ /\ RatingOf(ratingById, rows[j].id) = RatingOf(ratingById, rows[i].id)
           /\ j > i]])

\* [...restaurants].sort((ra, rb) => b - a): highest rating first, and rows of
\* equal rating in the order they had (Array.prototype.sort is stable)
SortByRating(rows, ratingById) ==
    Placed(rows, [i \in 1..Len(rows) |-> [j \in 1..Len(rows) |->
        \/ RatingOf(ratingById, rows[j].id) > RatingOf(ratingById, rows[i].id)
        \/ /\ RatingOf(ratingById, rows[j].id) = RatingOf(ratingById, rows[i].id)
           /\ j < i]])

\* the ratings getPersonalRankings computes from the rows and the votes it read
PersonalRatings(rows, vs, category) ==
    ReplayVotes([id \in {rows[i].id : i \in DOMAIN rows} |-> Baseline],
                relevantVotes(vs, category))

\* sorted.map((r, idx) => ({ rank: idx + 1, id, rating, games: 0 }))
RankingEntries(sorted, ratingById) ==
    [idx \in DOMAIN sorted |->
        [rank |-> idx, id |-> sorted[idx].id,
         rating |-> RatingOf(ratingById, sorted[idx].id), games |-> 0]]

\* getPersonalRankings from the replies of getAllRestaurants and getVotesByUser
getPersonalRankings(rows, vs, category) ==
    [rankings |-> RankingEntries(SortByRating(rows, PersonalRatings(rows, vs, category)),
                                 PersonalRatings(rows, vs, category)),
     category |-> category]

\* a getPersonalRankings that saves the ratings it computed as the global ratings
RatingsWrittenBack(rs, ratingById) ==
    [id \in DOMAIN rs |-> [rs[id] EXCEPT !.eloGlobal = RatingOf(ratingById, id)]]

\* the restaurants table after getPersonalRankings: ratingById is a Map of the
\* call, and no statement of the function writes to the store
RatingsKept(rs, ratingById) == rs

\* a caller invokes getPersonalRankings(userId, category)
GetPersonalRankings(p, userId, category) ==
    /\ Free(p)
    /\ UNCHANGED <<restaurants, votes>>
    /\ Settle(p, [Idle EXCEPT !.op = "rankings", !.pc = "getAll",
                              !.userId = userId, !.category = category,
                              !.pre = Store, !.ord = Started, !.began = Len(log)])

\* the ids of the rows whose active column is true: every row, unless the
\* behaviour began with some rows inactive
ActiveIds == IF matchup = null THEN RestaurantIds ELSE matchup.active

\* the store answers p's getAllRestaurants
RankingsGetAllRestaurants(p) ==
    LET c == calls[p]
    IN  /\ c.op = "rankings" /\ c.pc = "getAll"
        /\ UNCHANGED <<restaurants, votes>>
        /\ Settle(p, [c EXCEPT !.pc = "getVotes",
                               !.rows = getAllRestaurants(restaurants, ActiveIds)])

\* the store answers p's getVotesByUser, and getPersonalRankings runs to its return
GetVotesByUser(p) ==
    LET c == calls[p]
    IN  /\ c.op = "rankings" /\ c.pc = "getVotes"
        /\ \E vs \in {getVotesByUser(votes, c.userId)} :
              /\ restaurants' = RatingsKept(restaurants, PersonalRatings(c.rows, vs, c.category))
              /\ UNCHANGED votes
              /\ Settle(p, Return(c, getPersonalRankings(c.rows, vs, c.category)))

\* an undoVote that runs from its call to its return before any other call begins
UndoVoteAlone(voteId) ==
    /\ \A p \in Procs : calls[p].pc = "idle"
    /\ \E st \in {RunUndo(Store, voteId)} :
          restaurants' = st.restaurants /\ votes' = st.votes
    /\ UNCHANGED <<calls, log, elo, matchup, page>>

\* the votes of the ledgers the rankings are computed from
PersonalInputs ==
    { <<"r1", "r2", "value">>, <<"r1", "r3", "value">>, <<"r3", "r4", "aesthetics">> }

\* two users vote and undo, then one caller asks for a user's rankings
NextPersonal ==
    \/ \E input \in PersonalInputs, u \in PersonalUsers : SubmitVoteAlone(input, u)
    \/ \E v \in 1..Len(votes) : UndoVoteAlone(v)
    \/ \E u \in PersonalUsers, category \in RankingCategories :
          Unused("p1") /\ GetPersonalRankings("p1", u, category)
    \/ RankingsGetAllRestaurants("p1")
    \/ GetVotesByUser("p1")

SpecPersonal == InitConc /\ [][NextPersonal]_vars

\* the sets of active rows the rankings are asked on when rows are inactive
InactiveTables == { RestaurantIds \ {"r2"}, {"r2", "r4"} }

\* the votes were cast on restaurants that are inactive by now: submitVote and
\* undoVote read rows by id, whatever their active column
InitInactive ==
    /\ restaurants = [id \in RestaurantIds |-> NewRow(id)]
    /\ votes = <<>>
    /\ calls = [p \in Procs |-> Idle]
    /\ log = <<>>
    /\ elo = null
    /\ matchup \in {NoRequest(active) : active \in InactiveTables}
    /\ page = null

SpecInactive == InitInactive /\ [][NextPersonal]_vars

\* what getPersonalRankings(userId, category) returns on store st
RunRankings(st, userId, category) ==
    getPersonalRankings(getAllRestaurants(st.restaurants, RestaurantIds),
                        getVotesByUser(st.votes, userId), category)

----------------------------------------------------------------------------
(* A restaurants table with a rating that is not a number *)

\* rowToRestaurant gives NaN for a rating column that Number() cannot read: the
\* tables with one such rating, on "r1" or on "r2"
NaNTables ==
    { [id \in RestaurantIds |->
          IF id = bad THEN [NewRow(id) EXCEPT ![f] = NaN] ELSE NewRow(id)] :
      bad \in {"r1", "r2"}, f \in EloFields }

InitNaN ==
    /\ restaurants \in NaNTables
    /\ votes = <<>>
    /\ calls = [p \in Procs |-> Idle]
    /\ log = <<>>
    /\ elo = null
    /\ matchup = null
    /\ page = null

\* one caller, one call at a time, a store that never fails
NextNaN ==
    \/ \E input \in VoteInputs, u \in Users :
          Quiescent /\ Started < MaxFailCalls /\ SubmitVote("p1", input, u)
    \/ \E v \in VoteIds : Quiescent /\ Started < MaxFailCalls /\ UndoVote("p1", v)
    \/ \E slot \in {"winner", "loser"} : GetRestaurantById("p1", slot)
    \/ \E slot \in {"winner", "loser"} : UpdateRestaurantRatings("p1", slot)
    \/ StoreVote("p1")
    \/ GetVoteById("p1")
    \/ MarkVoteUndone("p1")

SpecNaN == InitNaN /\ [][NextNaN]_vars

----------------------------------------------------------------------------
(* A restaurants table that loses rows *)

MaxGone == 1

\* a row leaves the restaurants table (nothing in the repository deletes one;
\* getRestaurantById answers null for an id the table does not hold)
RemoveRestaurant(id) ==
    /\ Quiescent
    /\ id \in DOMAIN restaurants
    /\ Cardinality(RestaurantIds \ DOMAIN restaurants) < MaxGone
    /\ restaurants' = [r \in DOMAIN restaurants \ {id} |-> restaurants[r]]
    /\ UNCHANGED <<votes, calls, log, elo, matchup, page>>

\* one caller, one call at a time, a store that never fails, rows that go
NextGone ==
    \/ \E input \in PreludeInputs, u \in Users :
          Quiescent /\ Started < MaxFailCalls /\ SubmitVote("p1", input, u)
    \/ \E v \in VoteIds : Quiescent /\ Started < MaxFailCalls /\ UndoVote("p1", v)
    \/ \E slot \in {"winner", "loser"} : GetRestaurantById("p1", slot)
    \/ \E slot \in {"winner", "loser"} : UpdateRestaurantRatings("p1", slot)
    \/ StoreVote("p1")
    \/ GetVoteById("p1")
    \/ MarkVoteUndone("p1")
    \/ \E id \in RestaurantIds : RemoveRestaurant(id)

SpecGone == Init /\ [][NextGone]_vars

----------------------------------------------------------------------------
(* The survey page (Home): the matchup it shows, the vote id it remembers,
   and its requests to POST /api/vote and POST /api/undo. A request is sent,
   served by the route, and its reply handled by the page, as three steps:
   fetch() returns to the event loop, so taps, clicks and other replies
   come in between, and replies of overlapping requests arrive in any
   order. Vote ids are counted 1, 2, ... in the order the route stores the
   votes and matchup ids in the order GET /api/matchup hands them out;
   0 stands for null. *)

MaxTaps == 3

MaxUndoClicks == 2

MaxMatchups == 3

\* The page after its first matchup has loaded, nothing remembered.
PageLoaded ==
    [ matchup |-> 1,          \* data.data.matchup.id, 0 while the skeleton shows
      prev |-> 0,             \* prevSnapshot.matchup.id
      shown |-> 1,            \* matchups handed out so far
      loading |-> FALSE,      \* isLoading
      timer |-> FALSE,        \* overlayTimerRef.current is set
      lastVoteId |-> 0,
      voteRequests |-> {},    \* sent, not yet served
      voteReplies |-> {},     \* served, reply not yet handled
      undoRequests |-> {},
      undoReplies |-> {},
      stored |-> 0,           \* votes the route has stored
      undone |-> {},          \* ids of the votes the route has undone
      taps |-> 0,             \* vote requests sent
      clicks |-> <<>>,        \* undo requests sent: what the page knew then
      sentHere |-> 0,         \* vote requests sent for the matchup shown
      latest |-> 0,           \* newest vote whose ok reply the page has handled
      settled |-> FALSE ]     \* an undo succeeded and no vote has since

\* handleVote up to its fetch: returns at once without a matchup, otherwise
\* sends the request; nothing else is tested.
handleVote(pg) ==
    IF pg.matchup = 0 THEN pg
    ELSE [pg EXCEPT !.voteRequests = @ \cup {[n |-> pg.taps + 1, matchupId |-> pg.matchup]},
                    !.taps = @ + 1,
                    !.sentHere = @ + 1]

\* handleVote after its fetch.
VoteAnswered(pg, reply) ==
    LET rest == [pg EXCEPT !.voteReplies = @ \ {reply}]
    IN  IF reply.ok
        THEN [rest EXCEPT !.lastVoteId = reply.voteId,
                          !.timer = TRUE,
                          !.latest = IF reply.voteId > @ THEN reply.voteId ELSE @,
                          !.settled = FALSE]
        ELSE [rest EXCEPT !.timer = FALSE, !.sentHere = 0]

\* handleSkip, and the overlay timer's callback: the next key is fetched.
Refresh(pg) == [pg EXCEPT !.loading = TRUE, !.matchup = 0, !.timer = FALSE]

\* The effect that runs when a new matchup has loaded: the timer is
\* cleared and the snapshot rotated.
Loaded(pg) ==
    [pg EXCEPT !.matchup = pg.shown + 1,
               !.shown = @ + 1,
               !.prev = IF pg.matchup # 0 THEN pg.matchup ELSE @,
               !.loading = FALSE,
               !.timer = FALSE,
               !.sentHere = 0]

\* handleUndo up to its fetch.
handleUndo(pg) ==
    IF pg.lastVoteId = 0 THEN pg
    ELSE [pg EXCEPT !.undoRequests = @ \cup {[n |-> Len(pg.clicks) + 1, voteId |-> pg.lastVoteId]},
                    !.clicks = Append(@, [voteId |-> pg.lastVoteId,
                                          latest |-> pg.latest,
                                          settled |-> pg.settled])]

\* handleUndo after its fetch.
UndoAnswered(pg, reply) ==
    LET rest == [pg EXCEPT !.undoReplies = @ \ {reply}]
    IN  IF ~reply.success THEN rest
        ELSE [rest EXCEPT !.matchup = IF pg.prev # 0 THEN pg.prev ELSE @,
                          !.loading = IF pg.prev # 0 THEN FALSE ELSE @,
                          !.prev = 0,
                          !.sentHere = IF pg.prev # 0 THEN 0 ELSE @,
                          !.lastVoteId = 0,
                          !.settled = TRUE]

Rest == UNCHANGED <<restaurants, votes, calls, log, elo, matchup>>

TapCard ==
    /\ page # null
    /\ page.taps < MaxTaps
    /\ page.matchup # 0
    /\ page' = handleVote(page)
    /\ Rest

\* POST /api/vote serves a request: the vote is stored and its id sent
\* back, or the request is refused.
VoteServed ==
    /\ page # null
    /\ \E request \in page.voteRequests, ok \in BOOLEAN :
          page' = [page EXCEPT !.voteRequests = @ \ {request},
                               !.voteReplies = @ \cup
                                   {[n |-> request.n, ok |-> ok,
                                     voteId |-> IF ok THEN page.stored + 1 ELSE 0]},
                               !.stored = IF ok THEN @ + 1 ELSE @]
    /\ Rest

VoteReplied ==
    /\ page # null
    /\ \E reply \in page.voteReplies : page' = VoteAnswered(page, reply)
    /\ Rest

Skip ==
    /\ page # null
    /\ page.shown < MaxMatchups
    /\ ~page.loading
    /\ page' = Refresh(page)
    /\ Rest

TimerFires ==
    /\ page # null
    /\ page.shown < MaxMatchups
    /\ page.timer
    /\ page' = Refresh(page)
    /\ Rest

MatchupLoaded ==
    /\ page # null
    /\ page.loading
    /\ page' = Loaded(page)
    /\ Rest

ClickUndo ==
    /\ page # null
    /\ Len(page.clicks) < MaxUndoClicks
    /\ page.lastVoteId # 0
    /\ page' = handleUndo(page)
    /\ Rest

\* POST /api/undo serves a request: undoVote succeeds on a stored vote
\* that is not yet undone.
UndoServed ==
    /\ page # null
    /\ \E request \in page.undoRequests :
          LET success == request.voteId \in (1..page.stored) \ page.undone
          IN  page' = [page EXCEPT !.undoRequests = @ \ {request},
                                   !.undoReplies = @ \cup
                                       {[n |-> request.n, success |-> success]},
                                   !.undone = IF success THEN @ \cup {request.voteId}
                                              ELSE @]
    /\ Rest

UndoReplied ==
    /\ page # null
    /\ \E reply \in page.undoReplies : page' = UndoAnswered(page, reply)
    /\ Rest

InitPage ==
    /\ restaurants = [id \in RestaurantIds |-> NewRow(id)]
    /\ votes = <<>>
    /\ calls = [p \in Procs |-> Idle]
    /\ log = <<>>
    /\ elo = null
    /\ matchup = null
    /\ page = PageLoaded

NextPage ==
    \/ TapCard
    \/ VoteServed
    \/ VoteReplied
    \/ Skip
    \/ TimerFires
    \/ MatchupLoaded
    \/ ClickUndo
    \/ UndoServed
    \/ UndoReplied

SpecPage == InitPage /\ [][NextPage]_vars

----------------------------------------------------------------------------
(* undoVote on a ledger that earlier calls have filled: the votes are cast
   one after another before the first undo begins, then one caller undoes,
   one call at a time, on a store that never fails. *)

NextLedger ==
    \/ \E input \in VoteInputs, u \in Users : SubmitVoteAlone(input, u)
    \/ \E v \in VoteIds : Quiescent /\ Started < MaxFailCalls /\ UndoVote("p1", v)
    \/ GetVoteById("p1")
    \/ \E slot \in {"winner", "loser"} : GetRestaurantById("p1", slot)
    \/ \E slot \in {"winner", "loser"} : UpdateRestaurantRatings("p1", slot)
    \/ MarkVoteUndone("p1")

SpecLedger == Init /\ [][NextLedger]_vars

----------------------------------------------------------------------------
(* Claims *)

Returned(e, op) == e.op = op /\ e.pc = "returned"

\* the two rating columns a vote in category c moves
Moved(c) == {"eloGlobal", categoryKey(c)}

\* C1: a submitVote that returned, followed at once by an undoVote of the vote id
\* it returned that succeeded, leaves the winner's and the loser's global and
\* category rating equal to what they were before the vote
C1_RoundTripExact ==
    \A i \in 1..(Len(log) - 1) :
        LET s == log[i]
            u == log[i + 1]
        IN  ( /\ Returned(s, "submit") /\ Returned(u, "undo")
              /\ u.voteId = s.result.voteId
              /\ u.result.success
              /\ u.pre = s.post )
            => \A id \in {s.winnerId, s.loserId}, f \in Moved(s.category) :
                  u.post.restaurants[id][f] = s.pre.restaurants[id][f]

\* the delta a stored vote row carries for restaurant id in rating column f
DeltaOf(row, id, f) ==
    IF f = "eloGlobal"
    THEN (IF id = row.winnerId THEN row.deltaGlobalWinner ELSE row.deltaGlobalLoser)
    ELSE (IF id = row.winnerId THEN row.deltaCatWinner ELSE row.deltaCatLoser)

\* the two calls of a behaviour of SpecConc, once both have ended
BothEnded == Len(log) = 2 /\ \A p \in Procs : ~InFlight(calls[p]) /\ calls[p].writes = {}

\* C2: two submitVote calls that overlap and share a restaurant, each begun on the
\* same store and each returned: the shared restaurant's global rating is its
\* rating before both plus the two deltas the ledger stores for it
C2_NoLostUpdate ==
    BothEnded =>
        LET a == log[1]
            b == log[2]
        IN  ( /\ Returned(a, "submit") /\ Returned(b, "submit")
              /\ a.began = 0 /\ b.began = 0 )
            => \A id \in {a.winnerId, a.loserId} \cap {b.winnerId, b.loserId} :
                  LET r0 == a.pre.restaurants[id].eloGlobal
                      da == DeltaOf(votes[a.result.voteId], id, "eloGlobal")
                      db == DeltaOf(votes[b.result.voteId], id, "eloGlobal")
                  IN  restaurants[id].eloGlobal
                          \in {Add(Add(r0, da), db), Add(Add(r0, db), da), Fl(r0 + da + db)}

\* C3: two undoVote calls for the same vote, not undone before them, that overlap:
\* one reports success, the other that the vote is already undone, and the vote's
\* deltas are taken off the ratings once
C3_ConcurrentUndoOnce ==
    BothEnded =>
        LET a == log[1]
            b == log[2]
        IN  ( /\ a.op = "undo" /\ b.op = "undo" /\ a.voteId = b.voteId
              /\ a.voteId \in 1..Len(a.pre.votes)
              /\ a.began = 0 /\ b.began = 0 )
            => /\ a.pc = "returned" /\ b.pc = "returned"
               /\ \E ok \in {a, b}, no \in {a, b} :
                     /\ ok.result.success
                     /\ no.result = [success |-> FALSE, reason |-> "Vote already undone"]
               /\ LET row == votes[a.voteId]
                      s0 == IF a.ord = 0 THEN a.pre ELSE b.pre
                  IN  \A id \in {row.winnerId, row.loserId}, f \in Moved(row.category) :
                         restaurants[id][f]
                             = Sub(s0.restaurants[id][f], DeltaOf(row, id, f))

\* the last call that ended, when the store is at rest after it
AtRest == Quiescent /\ Len(log) > 0

\* the store holds vote row `row` for call e and the four ratings of its pair carry
\* the row's deltas on top of store s0
CarriesDeltas(s0, row) ==
    \A id \in {row.winnerId, row.loserId}, f \in Moved(row.category) :
        restaurants[id][f] = Add(s0.restaurants[id][f], DeltaOf(row, id, f))

\* C4: when a submitVote has ended, whether it returned or failed, either the four
\* ratings carry the vote's deltas and exactly one vote row was appended, or the
\* store is what it was when the call began
C4_SubmitAllOrNothing ==
    AtRest =>
        LET e == log[Len(log)]
        IN  e.op = "submit" =>
               \/ restaurants = e.pre.restaurants /\ votes = e.pre.votes
               \/ /\ Len(votes) = Len(e.pre.votes) + 1
                  /\ SubSeq(votes, 1, Len(e.pre.votes)) = e.pre.votes
                  /\ LET row == votes[Len(votes)]
                     IN  /\ row.winnerId = e.winnerId /\ row.loserId = e.loserId
                         /\ row.category = e.category /\ ~row.undone
                         /\ CarriesDeltas(e.pre, row)
                         /\ \A id \in RestaurantIds \ {e.winnerId, e.loserId} :
                               restaurants[id] = e.pre.restaurants[id]

\* C5: when an undoVote has ended, whether it returned or failed, either the four
\* ratings have the vote's deltas taken off and the vote is marked undone, or the
\* store is what it was when the call began
C5_UndoAllOrNothing ==
    AtRest =>
        LET e == log[Len(log)]
        IN  e.op = "undo" =>
               \/ restaurants = e.pre.restaurants /\ votes = e.pre.votes
               \/ /\ e.voteId \in 1..Len(e.pre.votes)
                  /\ votes = SetUndone(e.pre.votes, e.voteId)
                  /\ LET row == votes[e.voteId]
                     IN  /\ \A id \in {row.winnerId, row.loserId}, f \in Moved(row.category) :
                               restaurants[id][f]
                                   = Sub(e.pre.restaurants[id][f], DeltaOf(row, id, f))
                         /\ \A id \in RestaurantIds \ {row.winnerId, row.loserId} :
                               restaurants[id] = e.pre.restaurants[id]

\* C6: an undoVote of a vote that an earlier undoVote undone with success returns,
\* as a value and not as an error, success false with the reason the code has for
\* "already undone", and leaves every rating and every vote row as it was
C6_SecondUndoRefused ==
    \A i \in 1..Len(log), j \in 1..Len(log) :
        ( /\ i < j
          /\ Returned(log[i], "undo") /\ log[i].result.success
          /\ log[j].op = "undo" /\ log[j].voteId = log[i].voteId )
        => /\ log[j].pc = "returned"
           /\ log[j].result = [success |-> FALSE, reason |-> "Vote already undone"]
           /\ log[j].post = log[j].pre

\* a second undoVote of a vote has ended, the first having moved ratings
C6_Witness ==
    \E i \in 1..Len(log), j \in 1..Len(log) :
        /\ i < j
        /\ Returned(log[i], "undo") /\ log[i].result.success
        /\ log[j].op = "undo" /\ log[j].voteId = log[i].voteId
        /\ log[j].pre.restaurants # log[i].pre.restaurants

\* C7: an undoVote of a vote id the ledger has no row for returns, as a value and
\* not as an error, success false with the reason the code has for "not found",
\* and leaves every rating and every vote row as it was
C7_UnknownVoteRefused ==
    \A j \in 1..Len(log) :
        (log[j].op = "undo" /\ log[j].voteId \notin DOMAIN log[j].pre.votes)
        => /\ log[j].pc = "returned"
           /\ log[j].result = [success |-> FALSE, reason |-> "Vote not found"]
           /\ log[j].post = log[j].pre

\* an undoVote of an unknown vote id has ended, on a ledger that has rows
C7_Witness ==
    \E j \in 1..Len(log) :
        /\ log[j].op = "undo" /\ log[j].voteId \notin DOMAIN log[j].pre.votes
        /\ Len(log[j].pre.votes) > 0

\* rating r with the deltas of the rows i.. of ledger vs that are not undone and
\* move column f of restaurant id added to it, in the ledger's order
RECURSIVE Replayed(_, _, _, _, _)
Replayed(r, vs, i, id, f) ==
    IF i > Len(vs) THEN r
    ELSE LET row == vs[i]
             counts == /\ ~row.undone
                       /\ id \in {row.winnerId, row.loserId}
                       /\ f \in Moved(row.category)
         IN  Replayed(IF counts THEN Add(r, DeltaOf(row, id, f)) ELSE r, vs, i + 1, id, f)

\* C8: between calls made one after another, every rating of every restaurant is
\* its initial rating plus the stored deltas of the votes that are not undone
C8_LedgerConsistent ==
    AtRest =>
        \A id \in RestaurantIds, f \in EloFields :
            restaurants[id][f] = Replayed(log[1].pre.restaurants[id][f], votes, 1, id, f)

\* the restaurants of the vote that call e is about, on store st
PairOf(e, st) ==
    IF e.op = "undo"
    THEN {st.votes[e.voteId].winnerId, st.votes[e.voteId].loserId}
    ELSE {e.winnerId, e.loserId}

\* the store after call e ran alone on store st
Alone(e, st) ==
    IF e.op = "undo" THEN RunUndo(st, e.voteId)
    ELSE RunSubmit(st, <<e.winnerId, e.loserId, e.category>>, e.userId)

\* calls a and then b are undoVote calls of two votes, neither undone, on pairs with
\* no restaurant in common
DisjointUndos(a, b) ==
    /\ a.op = "undo" /\ b.op = "undo"
    /\ {a.voteId, b.voteId} \subseteq DOMAIN a.pre.votes
    /\ ~a.pre.votes[a.voteId].undone /\ ~a.pre.votes[b.voteId].undone
    /\ PairOf(a, a.pre) \cap PairOf(b, a.pre) = {}

\* C9: undoing V1 and then V2, two votes on pairs with no restaurant in common,
\* leaves the store that undoing V2 and then V1 leaves
C9_UndoOrderIndependent ==
    \A i \in 1..(Len(log) - 1) :
        (DisjointUndos(log[i], log[i + 1]) /\ log[i + 1].pre = log[i].post)
        => log[i + 1].post
               = RunUndo(RunUndo(log[i].pre, log[i + 1].voteId), log[i].voteId)

\* two such undoVote calls have ended with success, one after the other
C9_Witness ==
    \E i \in 1..(Len(log) - 1) :
        /\ DisjointUndos(log[i], log[i + 1]) /\ log[i + 1].pre = log[i].post
        /\ Returned(log[i], "undo") /\ log[i].result.success
        /\ Returned(log[i + 1], "undo") /\ log[i + 1].result.success
        /\ log[i + 1].post.restaurants # log[i].post.restaurants

\* of the two calls of a behaviour of SpecConc, the one that began first
First == IF log[1].ord = 0 THEN log[1] ELSE log[2]
Second == IF log[1].ord = 0 THEN log[2] ELSE log[1]

\* the two calls overlapped, one of them is an undoVote, and they are about pairs
\* with no restaurant in common
DisjointOverlap ==
    /\ BothEnded
    /\ Second.began = 0
    /\ First.op = "undo" \/ Second.op = "undo"
    /\ \A e \in {First, Second} : e.op = "undo" => e.voteId \in DOMAIN First.pre.votes
    /\ PairOf(First, First.pre) \cap PairOf(Second, First.pre) = {}

\* C10: an undoVote that overlaps a submitVote or an undoVote on a pair with no
\* restaurant in common leaves the store that the two calls leave when one runs
\* after the other, in either order
C10_DisjointOverlapAsSequential ==
    DisjointOverlap =>
        /\ Store = Alone(Second, Alone(First, First.pre))
        /\ Store = Alone(First, Alone(Second, First.pre))

\* such an overlap has ended, the undoVote with success and the other call having
\* written to the store as well
C10_Witness ==
    /\ DisjointOverlap
    /\ \E u \in {First, Second}, o \in {First, Second} :
          /\ u # o
          /\ Returned(u, "undo") /\ u.result.success
          /\ \/ Returned(o, "submit")
             \/ Returned(o, "undo") /\ o.result.success

\* C12: whatever the two ratings and the outcome, the two deltas that
\* updatePairByOutcome returns add up to zero, and each new rating is the old
\* rating plus its delta
C12_ZeroSum ==
    (elo # null /\ elo.out # null /\ ~elo.out.throws)
    => /\ elo.out.deltaA + elo.out.deltaB = 0
       /\ elo.out.newA = Add(elo.ratingA, elo.out.deltaA)
       /\ elo.out.newB = Add(elo.ratingB, elo.out.deltaB)

\* C11: an undoVote of a vote on restaurant A that overlaps a submitVote on A, both
\* ending with success: A's global rating is its rating before both, plus the new
\* vote's delta, less the undone vote's delta
C11_UndoVoteNoLostUpdate ==
    BothEnded =>
        \A u \in {First, Second}, s \in {First, Second} :
            ( /\ Second.began = 0
              /\ Returned(u, "undo") /\ u.result.success
              /\ Returned(s, "submit") )
            => \A id \in {u.winnerId, u.loserId} \cap {s.winnerId, s.loserId} :
                  LET r0 == First.pre.restaurants[id].eloGlobal
                      dv == DeltaOf(votes[u.voteId], id, "eloGlobal")
                      dn == DeltaOf(votes[s.result.voteId], id, "eloGlobal")
                  IN  restaurants[id].eloGlobal
                          \in {Sub(Add(r0, dn), dv), Add(Sub(r0, dv), dn), Fl(r0 + dn - dv)}

C13_LedgerRowsWellFormed ==
    \A i \in 1..Len(votes) :
        /\ votes[i].deltaGlobalWinner + votes[i].deltaGlobalLoser = 0
        /\ votes[i].deltaCatWinner + votes[i].deltaCatLoser = 0
        /\ votes[i].winnerId # votes[i].loserId
        /\ votes[i].category \in VOTABLE_CATEGORIES

\* the ledger holds rows of votes cast on ratings that differed, and bodies with
\* the same restaurant twice and with the global dimension were posted
C13_Witness ==
    /\ Len(votes) >= 2
    /\ \E i \in 1..Len(votes) : votes[i].deltaGlobalWinner # 16 * Unit
    /\ \E j \in 1..Len(log) : log[j].op = "vote" /\ log[j].pre.votes # <<>>

\* C14: a submitVote in category c that returned changed, of all ratings, only the
\* global and the category-c rating of its winner and of its loser, left every
\* row the ledger had as it was, and added one row to it, not undone
C14_VoteFrame ==
    \A j \in 1..Len(log) :
        LET s == log[j]
            n == Len(s.pre.votes)
        IN  Returned(s, "submit")
            => /\ \A id \in RestaurantIds, f \in EloFields :
                     (id \notin {s.winnerId, s.loserId} \/ f \notin Moved(s.category))
                     => s.post.restaurants[id][f] = s.pre.restaurants[id][f]
               /\ Len(s.post.votes) = n + 1
               /\ SubSeq(s.post.votes, 1, n) = s.pre.votes
               /\ LET row == s.post.votes[n + 1]
                  IN  /\ ~row.undone
                      /\ row.winnerId = s.winnerId /\ row.loserId = s.loserId
                      /\ row.category = s.category

\* a submitVote returned on a ledger that had a row, and moved its pair's ratings
C14_Witness ==
    \E j \in 1..Len(log) :
        /\ Returned(log[j], "submit")
        /\ Len(log[j].pre.votes) > 0
        /\ log[j].post.restaurants[log[j].winnerId].eloGlobal
               # log[j].pre.restaurants[log[j].winnerId].eloGlobal

\* C15: a submitVote whose winner is its loser throws the error that says so
\* before it asks anything of the store: no rating changes, no vote row is added
C15_SameRestaurantRefused ==
    /\ \A j \in 1..Len(log) :
          (log[j].op = "submit" /\ log[j].winnerId = log[j].loserId)
          => /\ log[j].pc = "thrown"
             /\ log[j].result.error = "Winner and loser must be different restaurants"
             /\ log[j].post = log[j].pre
    /\ \A p \in Procs :
          (calls[p].op = "submit" /\ calls[p].winnerId = calls[p].loserId)
          => calls[p].pc = "thrown" /\ calls[p].writes = {}

\* such a submitVote has ended, on a ledger with rows
C15_Witness ==
    \E j \in 1..Len(log) :
        /\ log[j].op = "submit" /\ log[j].winnerId = log[j].loserId
        /\ Len(log[j].pre.votes) > 0

\* C16: a submitVote whose winner id or loser id has no row throws the error that
\* says which is not found: no rating changes, that of the restaurant that does
\* exist included, and no vote row is added
C16_UnknownRestaurantRefused ==
    \A j \in 1..Len(log) :
        LET s == log[j]
            missing(id) == id \notin DOMAIN s.pre.restaurants
        IN  (s.op = "submit" /\ s.winnerId # s.loserId
             /\ (missing(s.winnerId) \/ missing(s.loserId)))
            => /\ s.pc = "thrown"
               /\ s.result.error = IF missing(s.winnerId) THEN "Winner restaurant not found"
                                   ELSE "Loser restaurant not found"
               /\ PostVoteResponse(s).status = 422
               /\ s.post = s.pre

\* such a submitVote has ended, for a missing winner and for a missing loser
C16_Witness ==
    /\ \E j \in 1..Len(log) : log[j].op = "submit" /\ log[j].winnerId = StaleId
    /\ \E j \in 1..Len(log) : log[j].op = "submit" /\ log[j].loserId = StaleId

\* C18: whatever the active restaurants and whatever the draws, a matchup that
\* generateMatchup made is between two different restaurants
C18_MatchupDistinct ==
    /\ matchup.made # null => matchup.made.a # matchup.made.b
    /\ (matchup.response # null /\ matchup.response.ok)
       => /\ matchup.response.data.matchup.a # matchup.response.data.matchup.b
          /\ matchup.response.data.restaurantA.id # matchup.response.data.restaurantB.id

\* a matchup was returned from a table with two active restaurants, the first
\* index drawn being the last of the list
C18_Witness ==
    /\ matchup.pc = "done" /\ matchup.response.ok
    /\ Len(matchup.restaurants) = 2 /\ matchup.indexA = 1

\* C19: with fewer than two active restaurants generateMatchup makes no matchup
\* and the route answers 404 with the message of the NoMatchupError, not the 500
\* "Internal server error" it has for other errors
C19_NoMatchupReported ==
    (matchup.fetched /\ Len(matchup.restaurants) < 2)
    => /\ matchup.pc = "done"
       /\ matchup.made = null
       /\ matchup.response
            = [ok |-> FALSE, status |-> 404, error |-> "Need at least 2 restaurants"]

\* a request was answered on a table with one active restaurant
C19_Witness ==
    matchup.fetched /\ Len(matchup.restaurants) = 1 /\ matchup.pc = "done"

\* C20: with two or more active restaurants, once generateMatchup's second index
\* is to be drawn, a matchup is made and returned, if of the draws the one that
\* differs from the first index is not put off for ever
C20_LoopExits ==
    (matchup.pc \in {"drawB", "resample"})
        ~> (matchup.pc = "done" /\ matchup.response.ok)

\* the loop was entered: the second index drawn equals the first
C20_Witness ==
    matchup.pc = "resample" /\ matchup.indexB = matchup.indexA
    /\ Len(matchup.restaurants) >= 2

\* C21: no step removes a row of the votes table or changes a row's winner, loser,
\* category, user or deltas; a row's undone flag goes from false to true and
\* never from true to false
C21_LedgerAppendOnly ==
    [][ /\ Len(votes') >= Len(votes)
        /\ \A i \in 1..Len(votes) :
              /\ [votes'[i] EXCEPT !.undone = FALSE] = [votes[i] EXCEPT !.undone = FALSE]
              /\ votes[i].undone => votes'[i].undone ]_vars

\* the ledger has two rows, the first of them undone
C21_Witness ==
    Len(votes) >= 2 /\ votes[1].undone /\ ~votes[2].undone

\* C22: with a store whose requests may fail, a call of submitVote sends at most
\* one update of its winner's row, at most one of its loser's row and at most
\* one insert into votes; it appends at most one row; and when the insert did
\* not happen or a sent update did not change its row, the call has thrown
C22_NoRetryOfMutations ==
    /\ \A p \in Procs :
          LET c == calls[p]
          IN  c.op = "submit" =>
                 /\ c.sent.winner <= 1 /\ c.sent.loser <= 1 /\ c.sent.vote <= 1
                 /\ Len(votes) <= Len(c.pre.votes) + 1
                 /\ (c.sent.vote = 1 /\ votes = c.pre.votes) => c.pc = "thrown"
                 /\ \A slot \in {"winner", "loser"} :
                       ( /\ c.sent[slot] = 1
                         /\ restaurants[IdOf(c, slot)] = c.pre.restaurants[IdOf(c, slot)] )
                       => c.pc = "thrown"
    /\ \A i \in 1..Len(log) :
          log[i].op = "submit" => Len(log[i].post.votes) <= Len(log[i].pre.votes) + 1

\* a submitVote whose storeVote failed after both rows were updated
C22_Witness ==
    /\ calls["p1"].op = "submit"
    /\ calls["p1"].pc = "thrown"
    /\ calls["p1"].result = [error |-> "Failed to store vote"]
    /\ calls["p1"].sent = [winner |-> 1, loser |-> 1, vote |-> 1]
    /\ votes = calls["p1"].pre.votes

\* the ledger vs without its row i
Without(vs, i) ==
    [k \in 1..(Len(vs) - 1) |-> IF k < i THEN vs[k] ELSE vs[k + 1]]

\* the rows of ledger vs that count for user u in category c
Counted(vs, u, c) ==
    SelectSeq(vs, LAMBDA v : v.userId = u /\ ~v.undone /\ (c = "global" \/ v.category = c))

\* the rating each restaurant has in a returned ranking
RatingsIn(result) ==
    [id \in {result.rankings[i].id : i \in DOMAIN result.rankings} |->
        LET i == CHOOSE i \in DOMAIN result.rankings : result.rankings[i].id = id
        IN  result.rankings[i].rating]

\* C23: what getPersonalRankings returns is what it returns on the same ledger
\* without any one of its undone rows: an undone vote plays no part
C23_UndoneVotesNotReplayed ==
    \A n \in 1..Len(log) :
       LET e == log[n]
       IN  Returned(e, "rankings") =>
              \A i \in 1..Len(e.pre.votes) :
                 e.pre.votes[i].undone =>
                    e.result = RunRankings([e.pre EXCEPT !.votes = Without(e.pre.votes, i)],
                                           e.userId, e.category)

\* rankings returned for a user who has an undone vote and a standing vote in
\* the category asked for
C23_Witness ==
    \E n \in 1..Len(log) :
       /\ Returned(log[n], "rankings")
       /\ Len(Counted(log[n].pre.votes, log[n].userId, log[n].category)) >= 1
       /\ \E i \in 1..Len(log[n].pre.votes) :
             LET v == log[n].pre.votes[i]
             IN  /\ v.undone /\ v.userId = log[n].userId
                 /\ log[n].category \in {"global", v.category}

\* C24: the ratings returned are those returned without the newest vote that
\* counts, with updatePairByOutcome applied once more to that vote's winner as
\* first party and outcome 'A'; with no vote that counts they are all 1500
C24_ReplayInCreationOrder ==
    \A n \in 1..Len(log) :
       LET e == log[n]
           L == Counted(e.pre.votes, e.userId, e.category)
       IN  Returned(e, "rankings") =>
              IF L = <<>>
              THEN \A id \in RestaurantIds : RatingsIn(e.result)[id] = Baseline
              ELSE LET last   == L[Len(L)]
                       before == RatingsIn(RunRankings(
                                    [e.pre EXCEPT !.votes = Without(e.pre.votes, last.voteId)],
                                    e.userId, e.category))
                       u      == updatePairByOutcome(before[last.winnerId],
                                                     before[last.loserId], "A")
                   IN  \A id \in RestaurantIds :
                          RatingsIn(e.result)[id] =
                             IF id = last.winnerId THEN u.newA
                             ELSE IF id = last.loserId THEN u.newB
                             ELSE before[id]

\* rankings returned from two votes that count and share a restaurant
C24_Witness ==
    \E n \in 1..Len(log) :
       LET L == Counted(log[n].pre.votes, log[n].userId, log[n].category)
       IN  /\ Returned(log[n], "rankings")
           /\ Len(L) >= 2
           /\ {L[1].winnerId, L[1].loserId} \cap {L[2].winnerId, L[2].loserId} # {}
           /\ {L[1].winnerId, L[1].loserId} # {L[2].winnerId, L[2].loserId}

\* the ledger vs with every row's category set to c
Recategorised(vs, c) == [i \in DOMAIN vs |-> [vs[i] EXCEPT !.category = c]]

\* C25: for 'global' the rankings are those of a ledger whose rows all carry
\* one category, asked for that category (every vote is replayed); for a
\* votable category they are those of the ledger's rows of that category
\* alone, all of them replayed
C25_CategorySelection ==
    \A n \in 1..Len(log) :
       LET e == log[n]
           same == SelectSeq(e.pre.votes, LAMBDA v : v.category = e.category)
       IN  Returned(e, "rankings") =>
              /\ e.result.category = e.category
              /\ IF e.category = "global"
                 THEN e.result.rankings =
                         RunRankings([e.pre EXCEPT !.votes = Recategorised(e.pre.votes, "value")],
                                     e.userId, "value").rankings
                 ELSE /\ e.result = RunRankings([e.pre EXCEPT !.votes = same],
                                                e.userId, e.category)
                      /\ e.result.rankings =
                            RunRankings([e.pre EXCEPT !.votes = same], e.userId, "global").rankings

\* rankings returned for a category, the user having standing votes in that
\* category and in another
C25_Witness ==
    \E n \in 1..Len(log) :
       /\ Returned(log[n], "rankings")
       /\ log[n].category # "global"
       /\ Len(Counted(log[n].pre.votes, log[n].userId, log[n].category)) >= 1
       /\ Len(Counted(log[n].pre.votes, log[n].userId, "global"))
             > Len(Counted(log[n].pre.votes, log[n].userId, log[n].category))

\* C26: for a user none of whose votes counts in the category asked for, the
\* rankings list every restaurant with rating 1500, in the order of
\* getAllRestaurants, ranked 1, 2, ...
C26_NoVotesAllBaseline ==
    \A n \in 1..Len(log) :
       LET e == log[n]
       IN  ( /\ Returned(e, "rankings")
             /\ Counted(e.pre.votes, e.userId, e.category) = <<>> ) =>
              e.result.rankings =
                 [i \in 1..Len(RestaurantOrder) |->
                     [rank |-> i, id |-> RestaurantOrder[i], rating |-> Baseline, games |-> 0]]

\* rankings returned for a user without a vote that counts, on a ledger that
\* holds votes
C26_Witness ==
    \E n \in 1..Len(log) :
       /\ Returned(log[n], "rankings")
       /\ Counted(log[n].pre.votes, log[n].userId, log[n].category) = <<>>
       /\ Len(log[n].pre.votes) >= 2

\* the place of restaurant id in the order of getAllRestaurants
NameOrder(id) == CHOOSE i \in 1..Len(RestaurantOrder) : RestaurantOrder[i] = id

\* C27: the rankings list every restaurant once, by rating from high to low,
\* restaurants of equal rating in the order of getAllRestaurants; rank is the
\* position in the list; the list is a function of the store, the user and the
\* category
C27_SortedAndRanked ==
    \A n \in 1..Len(log) :
       LET e == log[n]
           r == e.result.rankings
       IN  Returned(e, "rankings") =>
              /\ {r[i].id : i \in DOMAIN r} = RestaurantIds
              /\ Len(r) = Cardinality(RestaurantIds)
              /\ \A i \in DOMAIN r : r[i].rank = i
              /\ \A i, j \in DOMAIN r :
                    i < j => \/ r[i].rating > r[j].rating
                             \/ /\ r[i].rating = r[j].rating
                                /\ NameOrder(r[i].id) < NameOrder(r[j].id)
              /\ e.result = RunRankings(e.pre, e.userId, e.category)

\* rankings returned with two restaurants of equal rating below a higher one
\* and above a lower one
C27_Witness ==
    \E n \in 1..Len(log) :
       LET r == log[n].result.rankings
       IN  /\ Returned(log[n], "rankings")
           /\ r[1].rating > r[2].rating
           /\ r[2].rating = r[3].rating
           /\ r[3].rating > r[4].rating

\* C28: a call of getPersonalRankings leaves the restaurants and the votes as
\* they were when it began, while it runs and when it has returned
C28_RankingsReadOnly ==
    /\ \A p \in Procs : calls[p].op = "rankings" => Store = calls[p].pre
    /\ \A n \in 1..Len(log) : log[n].op = "rankings" => log[n].post = log[n].pre

\* rankings returned whose ratings differ from the stored global ratings
C28_Witness ==
    \E n \in 1..Len(log) :
       /\ Returned(log[n], "rankings")
       /\ \E id \in RestaurantIds :
             RatingsIn(log[n].result)[id] # log[n].pre.restaurants[id].eloGlobal
       /\ Len(Counted(log[n].pre.votes, log[n].userId, log[n].category)) >= 1

\* C29: for equal ratings the expected score is 0.5 and updatePairByOutcome
\* gives deltas 16 and -16 for outcome 'A', -16 and 16 for 'B', 0 and 0 for a
\* draw; a first vote in category speed between two restaurants at 1500 leaves
\* the winner at 1516 and the loser at 1484, in global and in speed
C29_EqualRatingsSixteen ==
    /\ ( /\ elo # null /\ elo.out # null
         /\ elo.ratingA = elo.ratingB /\ elo.ratingA # NaN )
       => /\ expectedScore(elo.ratingA, elo.ratingB) = Unit \div 2
          /\ ~elo.out.throws
          /\ elo.out.deltaA = CASE elo.outcome = "A" -> 16 * Unit
                                [] elo.outcome = "B" -> -16 * Unit
                                [] elo.outcome = "draw" -> 0
          /\ elo.out.deltaB = -elo.out.deltaA
    /\ elo # null =>
          LET st == RunSubmit([restaurants |-> [id \in RestaurantIds |-> NewRow(id)],
                               votes |-> <<>>], <<"r1", "r2", "speed">>, "u1")
          IN  /\ st.restaurants["r1"].eloGlobal = 1516 * Unit
              /\ st.restaurants["r1"].eloSpeed = 1516 * Unit
              /\ st.restaurants["r2"].eloGlobal = 1484 * Unit
              /\ st.restaurants["r2"].eloSpeed = 1484 * Unit
              /\ st.restaurants["r1"].eloValue = Baseline
              /\ Len(st.votes) = 1

\* updatePairByOutcome(1500, 1500, 'A') has returned 1516 and 1484
C29_Witness ==
    /\ elo # null /\ elo.out # null
    /\ elo.ratingA = Baseline /\ elo.ratingB = Baseline /\ elo.outcome = "A"
    /\ elo.out.newA = 1516 * Unit /\ elo.out.newB = 1484 * Unit

\* what the arithmetic of the model can tell apart from 1: eight of its roundings
Tolerance == 2 ^ (FracBits - Precision + 3)

RatingsRead(winner, loser, category) ==
    { winner.eloGlobal, loser.eloGlobal,
      winner[categoryKey(category)], loser[categoryKey(category)] }

\* C31: expectedScore and updatePairByOutcome raise their Error when a rating is
\* NaN; a submitVote that read a NaN among its four ratings has thrown `ELO
\* ratings cannot be NaN`, and the restaurants and the votes are as they were
\* when it began
C31_NaNRefused ==
    /\ \A r \in EloRatings :
          /\ expectedScore(NaN, r) = Thrown /\ expectedScore(r, NaN) = Thrown
          /\ \A o \in Outcomes : /\ updatePairByOutcome(NaN, r, o).throws
                                 /\ updatePairByOutcome(r, NaN, o).throws
    /\ \A n \in 1..Len(log) :
          LET e == log[n]
              w == getRestaurantById(e.pre.restaurants, e.winnerId)
              l == getRestaurantById(e.pre.restaurants, e.loserId)
          IN  ( /\ e.op = "submit" /\ e.winnerId # e.loserId
                /\ w # null /\ l # null
                /\ NaN \in RatingsRead(w, l, e.category) )
              => /\ e.pc = "thrown"
                 /\ e.result = [error |-> "ELO ratings cannot be NaN"]
                 /\ e.post = e.pre
    /\ \A p \in Procs :
          ( /\ calls[p].op = "submit" /\ calls[p].pc \in {"update", "store"} )
          => NaN \notin RatingsRead(calls[p].winner, calls[p].loser, calls[p].category)

\* a submitVote has thrown for a NaN in the category rating alone, on a ledger
\* that holds a vote
C31_Witness ==
    \E n \in 1..Len(log) :
       /\ log[n].op = "submit" /\ log[n].pc = "thrown"
       /\ log[n].result = [error |-> "ELO ratings cannot be NaN"]
       /\ getRestaurantById(log[n].pre.restaurants, log[n].winnerId).eloGlobal # NaN
       /\ getRestaurantById(log[n].pre.restaurants, log[n].loserId).eloGlobal # NaN
       /\ Len(log[n].pre.votes) = 1

\* C32: a submitVote that returned gives back its winner's and its loser's row
\* as stored: the global and the category rating are the rating read plus the
\* stored delta, the other fields are as read, and each stored delta is exactly
\* the new rating minus the rating read
C32_ReturnedMatchesStored ==
    \A n \in 1..Len(log) :
       LET e   == log[n]
           key == categoryKey(e.category)
           row == e.post.votes[e.voteId]
       IN  Returned(e, "submit") =>
              \A slot \in {"winner", "loser"} :
                 LET id   == IF slot = "winner" THEN e.winnerId ELSE e.loserId
                     read == e.pre.restaurants[id]
                     out  == e.result[slot]
                     dG   == IF slot = "winner" THEN row.deltaGlobalWinner
                             ELSE row.deltaGlobalLoser
                     dC   == IF slot = "winner" THEN row.deltaCatWinner
                             ELSE row.deltaCatLoser
                 IN  /\ out = e.post.restaurants[id]
                     /\ out.eloGlobal = Add(read.eloGlobal, dG)
                     /\ out[key] = Add(read[key], dC)
                     /\ \A f \in EloFields \ {"eloGlobal", key} : out[f] = read[f]
                     /\ out.id = read.id
                     /\ dG = out.eloGlobal - read.eloGlobal
                     /\ dC = out[key] - read[key]

\* the rating columns an undo of a vote in category c may change
UndoColumns(c) ==
    {"eloGlobal"} \cup (IF c = "value" THEN {"eloValue"}
                        ELSE IF c = "aesthetics" THEN {"eloAesthetics"}
                        ELSE IF c = "speed" THEN {"eloSpeed"} ELSE {})

\* C33: an undoVote of vote V that succeeded changed no rating but the global
\* and V's category rating of V's winner and V's loser, and nothing in the votes
\* but V's undone flag: the ledger has the rows it had, V's row with its ids,
\* category and deltas
C33_UndoFrame ==
    \A n \in 1..Len(log) :
       LET e == log[n]
           V == e.pre.votes[e.voteId]
       IN  (Returned(e, "undo") /\ e.result.success) =>
              /\ \A id \in RestaurantIds, f \in EloFields :
                    (id \notin {V.winnerId, V.loserId} \/ f \notin UndoColumns(V.category))
                    => e.post.restaurants[id][f] = e.pre.restaurants[id][f]
              /\ \A id \in RestaurantIds : e.post.restaurants[id].id = id
              /\ DOMAIN e.post.restaurants = DOMAIN e.pre.restaurants
              /\ Len(e.post.votes) = Len(e.pre.votes)
              /\ \A i \in 1..Len(e.pre.votes) :
                    e.post.votes[i] = IF i = e.voteId THEN [V EXCEPT !.undone = TRUE]
                                      ELSE e.pre.votes[i]

\* an undoVote succeeded on a ledger of two votes, and moved a rating
C33_Witness ==
    \E n \in 1..Len(log) :
       /\ Returned(log[n], "undo") /\ log[n].result.success
       /\ Len(log[n].pre.votes) >= 2
       /\ log[n].post.restaurants # log[n].pre.restaurants
       /\ log[n].pre.votes[log[n].voteId].category = "speed"

\* C34: an undoVote of a vote that is not undone and whose winner or loser is
\* no longer in the restaurants table returns success = false with reason
\* `Restaurant(s) not found`, and leaves the restaurants and the votes as they
\* were: no rating written, the vote not undone
C34_UndoOfMissingRestaurantRefused ==
    \A n \in 1..Len(log) :
       LET e == log[n]
       IN  ( /\ e.op = "undo"
             /\ e.voteId \in DOMAIN e.pre.votes
             /\ ~e.pre.votes[e.voteId].undone
             /\ ~({e.pre.votes[e.voteId].winnerId, e.pre.votes[e.voteId].loserId}
                     \subseteq DOMAIN e.pre.restaurants) )
           => /\ e.pc = "returned"
              /\ e.result = [success |-> FALSE, reason |-> "Restaurant(s) not found"]
              /\ e.post = e.pre
              /\ ~e.post.votes[e.voteId].undone

\* an undoVote was refused for a vote whose loser left the table, its winner
\* still there
C34_Witness ==
    \E n \in 1..Len(log) :
       /\ Returned(log[n], "undo")
       /\ log[n].result = [success |-> FALSE, reason |-> "Restaurant(s) not found"]
       /\ log[n].pre.votes[log[n].voteId].winnerId \in DOMAIN log[n].pre.restaurants
       /\ log[n].pre.votes[log[n].voteId].loserId \notin DOMAIN log[n].pre.restaurants

RECURSIVE Total(_, _, _)
\* the sum of rating column f over the rows of table rs with an id in ids
Total(rs, f, ids) ==
    IF ids = {} THEN 0
    ELSE LET id == CHOOSE id \in ids : TRUE
         IN  rs[id][f] + Total(rs, f, ids \ {id})

\* C35: between calls made one after another, the global ratings of all
\* restaurants add up to what they added up to at the start, and so do the
\* ratings of each category
C35_RatingMassConserved ==
    AtRest =>
       \A f \in EloFields :
          Total(restaurants, f, RestaurantIds) = Total(log[1].pre.restaurants, f, RestaurantIds)

C37_OneEntryPerActiveRestaurant ==
    \A n \in 1..Len(log) :
       LET e == log[n]
           r == e.result.rankings
       IN  Returned(e, "rankings") =>
              /\ Len(r) = Cardinality(ActiveIds)
              /\ {r[i].id : i \in DOMAIN r} = ActiveIds
              /\ \A i \in DOMAIN r : r[i].rank = i
              /\ \A i, j \in DOMAIN r : r[i].id = r[j].id => i = j

\* rankings returned on a table with inactive rows, for a user with a vote that
\* counts on an inactive restaurant and one on active restaurants only
C37_Witness ==
    \E n \in 1..Len(log) :
       LET L == Counted(log[n].pre.votes, log[n].userId, log[n].category)
       IN  /\ Returned(log[n], "rankings")
           /\ matchup # null /\ matchup.active # RestaurantIds
           /\ \E i \in DOMAIN L : ~({L[i].winnerId, L[i].loserId} \subseteq matchup.active)
           /\ \E i \in DOMAIN L : {L[i].winnerId, L[i].loserId} \subseteq matchup.active

\* C39: once a vote request for the matchup on display has been sent, no
\* further tap sends another one before the next matchup has loaded.
C39_OneVoteRequestPerMatchup ==
    page # null => page.sentHere <= 1

C38_Guarded ==
    \A i \in 1..Len(page.clicks) : page.clicks[i].voteId # 0

C38_Latest ==
    /\ page.lastVoteId # 0 => page.lastVoteId = page.latest
    /\ \A i \in 1..Len(page.clicks) : page.clicks[i].voteId = page.clicks[i].latest

C38_Cleared ==
    /\ page.settled => page.lastVoteId = 0
    /\ \A i \in 1..Len(page.clicks) : ~page.clicks[i].settled

\* C38: an undo request is sent only while a vote id is remembered, that id
\* is the id of the latest successful vote, and after a successful undo
\* nothing is remembered, so that no undo request is sent until another
\* vote has succeeded.
C38_UndoTargetsLatestVote ==
    page # null => C38_Guarded /\ C38_Latest /\ C38_Cleared

====
